---- MODULE Spec2Model ----
(***************************************************************************)
(* A model of the TNFS client of tnfs_client3.py: the wire codec           *)
(* (MessageBase.toWire / fromWire and the per-command payload methods)     *)
(* and the Session engine built on it.                                     *)
(*                                                                         *)
(* Conventions.                                                            *)
(*   - a byte string is a sequence over 0..255; a str is the sequence of   *)
(*     its code points, all below 128 in this model, so that               *)
(*     .encode("utf-8") and .decode("utf-8") map them one to one;          *)
(*   - Python's None is None (-1) in a numeric attribute and NoneStr       *)
(*     (<<-1>>) in a str/bytes attribute;                                  *)
(*   - an operation that raises yields Raised (bytes) or Exc(kind)         *)
(*     (objects).                                                          *)
(***************************************************************************)
EXTENDS Integers, Sequences, FiniteSets, TLC

None == -1
NoneStr == <<-1>>
Raised == <<-2>>

Exc(kind) == [exc |-> kind]
IsExc(r) == "exc" \in DOMAIN r

\* Body applied to the value v, computed once
With(v, Body(_)) == Body(v)

\* the bytes of "None", what an f-string makes of None
NoneText == <<78, 111, 110, 101>>

(***************************************************************************)
(* Codec primitives: struct.pack / struct.unpack and Python slicing.       *)
(***************************************************************************)
Min(a, b) == IF a < b THEN a ELSE b
Max(a, b) == IF a > b THEN a ELSE b

\* data[a:b] for 0 <= a, 0 <= b
Slice(data, a, b) == SubSeq(data, a + 1, Min(b, Len(data)))
\* data[a:]
From(data, a) == SubSeq(data, a + 1, Len(data))

\* struct.pack accepts v for an unsigned field of n bytes
Fits(v, n) == v >= 0 /\ (n >= 4 \/ v < 256 ^ n)
\* the n little-endian bytes of v
LE(v, n) == [i \in 1..n |-> (v \div (256 ^ (i - 1))) % 256]

RECURSIVE UnLE(_)
\* the unsigned value of little-endian bytes
UnLE(bs) == IF Len(bs) = 0 THEN 0 ELSE bs[1] + 256 * UnLE(Tail(bs))

\* struct.pack("<i", v): two's complement on 4 bytes
\* (a seek position of None is -1 here, so -1 is not among the modelled positions)
FitsI32(v) == v # None
LEi32(v) == IF v >= 0 THEN LE(v, 4)
            ELSE LET w == v + 2147483647 + 1 IN
                 [i \in 1..4 |-> IF i = 4 THEN ((w \div 16777216) % 256) + 128
                                 ELSE (w \div (256 ^ (i - 1))) % 256]
UnLEi32(bs) == IF bs[4] < 128 THEN UnLE(bs)
               ELSE UnLE([bs EXCEPT ![4] = bs[4] - 128]) - 2147483647 - 1

RECURSIVE FindZero(_, _)
\* data.find(b"\0", pos): 0-based index of the first zero at or after pos, -1 if none
FindZero(data, pos) ==
    IF pos >= Len(data) THEN -1
    ELSE IF data[pos + 1] = 0 THEN pos
    ELSE FindZero(data, pos + 1)

IsAscii(bs) == \A i \in 1..Len(bs) : bs[i] < 128

\* getCstr with the slice started one byte late
getCstr_lateStart(data, pos) ==
    LET start == IF pos = None THEN 0 ELSE pos
        end == FindZero(data, start)
    IN  IF end = -1 THEN [string |-> NoneStr, pos |-> None, exc |-> FALSE]
        ELSE [string |-> Slice(data, Min(start + 1, end), end), pos |-> end + 1,
              exc |-> FALSE]

\* getCstr returns (string, next position); a position of None, as left by
\* an earlier getCstr that found no terminator, is the start of the buffer
\* for both bytes.find and the slice.
getCstr(data, pos) ==
    LET start == IF pos = None THEN 0 ELSE pos
        end == FindZero(data, start)
    IN  IF end = -1 THEN [string |-> NoneStr, pos |-> None, exc |-> FALSE]
        ELSE IF ~IsAscii(Slice(data, start, end))
             THEN [string |-> NoneStr, pos |-> None, exc |-> TRUE]
        ELSE [string |-> Slice(data, start, end), pos |-> end + 1, exc |-> FALSE]

\* f"{s}" encoded: the text of a str, "None" for None
Fmt(s) == IF s = NoneStr THEN NoneText ELSE s
\* f"{s}\0".encode("utf-8")
CStr(s) == Fmt(s) \o <<0>>

(***************************************************************************)
(* Message model: MessageBase, Command, Response.                          *)
(***************************************************************************)
\* the TnfsCmd attribute of every class
TnfsCmd(klass) ==
    CASE klass \in {"Mount", "MountResponse"} -> 0
      [] klass \in {"Umount", "UmountResponse"} -> 1
      [] klass \in {"OpenDir", "OpenDirResponse"} -> 16
      [] klass \in {"ReadDir", "ReadDirResponse"} -> 17
      [] klass \in {"CloseDir", "CloseDirResponse"} -> 18
      [] klass \in {"MkDir", "MkDirResponse"} -> 19
      [] klass \in {"RmDir", "RmDirResponse"} -> 20
      [] klass \in {"OpenDirX", "OpenDirXResponse"} -> 23
      [] klass \in {"ReadDirX", "ReadDirXResponse"} -> 24
      [] klass \in {"Read", "ReadResponse"} -> 33
      [] klass \in {"Write", "WriteResponse"} -> 34
      [] klass \in {"Close", "CloseResponse"} -> 35
      [] klass \in {"Stat", "StatResponse"} -> 36
      [] klass \in {"LSeek", "LSeekResponse"} -> 37
      [] klass \in {"Unlink", "UnlinkResponse"} -> 38
      [] klass \in {"ChMod", "ChModResponse"} -> 39
      [] klass \in {"Rename", "RenameResponse"} -> 40
      [] klass \in {"Open", "OpenResponse"} -> 41
      [] klass \in {"Size", "SizeResponse"} -> 48
      [] klass \in {"Free", "FreeResponse"} -> 49

CommandKlasses == {"Mount", "Umount", "OpenDir", "ReadDir", "CloseDir", "MkDir",
                   "RmDir", "OpenDirX", "ReadDirX", "Open", "Read", "Write",
                   "Close", "Stat", "LSeek", "Unlink", "ChMod", "Rename",
                   "Size", "Free"}
ResponseKlasses == {"MountResponse", "UmountResponse", "OpenDirResponse",
                    "ReadDirResponse", "CloseDirResponse", "MkDirResponse",
                    "RmDirResponse", "OpenDirXResponse", "ReadDirXResponse",
                    "OpenResponse", "ReadResponse", "WriteResponse",
                    "CloseResponse", "StatResponse", "LSeekResponse",
                    "UnlinkResponse", "ChModResponse", "RenameResponse",
                    "SizeResponse", "FreeResponse"}

\* an attribute assignment; the attribute is created when the object has none
Set(m, f, v) == [x \in DOMAIN m \cup {f} |-> IF x = f THEN v ELSE m[x]]

\* Mount.setSession overrides MessageBase.setSession and always stores 0
setSession(m, conn_id) ==
    Set(m, "conn_id", IF m.klass = "Mount" THEN 0 ELSE conn_id)
setRetry(m, retry) == Set(m, "retry", retry)
setCommand(m, command) == Set(m, "command", command)
setReply(m, reply) == Set(m, "reply", reply)

\* MessageBase.__init__
MessageBase(klass) ==
    setCommand(setRetry(setSession([klass |-> klass], None), 0), TnfsCmd(klass))
\* Response.__init__
Response(klass) == setReply(MessageBase(klass), 0)

\* Response.do_ExtraToWire
Response_do_ExtraToWire(m) == IF Fits(m.reply, 1) THEN LE(m.reply, 1) ELSE Raised
\* Response.do_ExtraFromWire: the object after setReply and the bytes consumed
Response_do_ExtraFromWire(m, data) ==
    IF Len(Slice(data, 0, 1)) # 1 THEN Exc("struct.error")
    ELSE [m |-> setReply(m, data[1]), pos |-> 1]

Anonymous == <<97, 110, 111, 110, 121, 109, 111, 117, 115>>

\* the entries attribute: None until a status-0 reply is decoded, a list after
NoneList == [isNone |-> TRUE, list |-> <<>>]
List(l) == [isNone |-> FALSE, list |-> l]

\* klass(): a fresh object, as the __init__ of the class leaves it
\* (OpenDirResponse and OpenDirXResponse call setReply(255))
New(klass) ==
    CASE klass = "Mount" ->
           MessageBase("Mount") @@ [ver_maj |-> 1, ver_min |-> 2, location |-> NoneStr, user |-> <<>>, password |-> <<>>]
      [] klass = "MountResponse" ->
           Response("MountResponse") @@ [ver_maj |-> 0, ver_min |-> 0, retry_delay |-> None]
      [] klass = "Umount" ->
           MessageBase("Umount")
      [] klass = "UmountResponse" ->
           Response("UmountResponse")
      [] klass = "OpenDir" ->
           MessageBase("OpenDir") @@ [path |-> NoneStr]
      [] klass = "OpenDirResponse" ->
           setReply(Response("OpenDirResponse") @@ [handle |-> None], 255)
      [] klass = "ReadDir" ->
           MessageBase("ReadDir") @@ [handle |-> None]
      [] klass = "ReadDirResponse" ->
           Response("ReadDirResponse") @@ [path |-> NoneStr]
      [] klass = "CloseDir" ->
           MessageBase("CloseDir") @@ [handle |-> None]
      [] klass = "CloseDirResponse" ->
           Response("CloseDirResponse")
      [] klass = "MkDir" ->
           MessageBase("MkDir") @@ [path |-> NoneStr]
      [] klass = "MkDirResponse" ->
           Response("MkDirResponse")
      [] klass = "RmDir" ->
           MessageBase("RmDir") @@ [path |-> NoneStr]
      [] klass = "RmDirResponse" ->
           Response("RmDirResponse")
      [] klass = "OpenDirX" ->
           MessageBase("OpenDirX") @@ [path |-> NoneStr, dirOptions |-> 0, sortOptions |-> 0, maxResults |-> 65535, pattern |-> <<>>]
      [] klass = "OpenDirXResponse" ->
           Set(setReply(Response("OpenDirXResponse") @@ [handle |-> None], 255), "entries", 0)
      [] klass = "ReadDirX" ->
           MessageBase("ReadDirX") @@ [handle |-> None, maxEntries |-> 0]
      [] klass = "ReadDirXResponse" ->
           Response("ReadDirXResponse") @@ [path |-> NoneStr, entries |-> NoneList]
      [] klass = "Open" ->
           MessageBase("Open") @@ [flags |-> 0, mode |-> 0, path |-> NoneStr]
      [] klass = "OpenResponse" ->
           Response("OpenResponse") @@ [fd |-> None]
      [] klass = "Read" ->
           MessageBase("Read") @@ [fd |-> None, size |-> None]
      [] klass = "ReadResponse" ->
           Response("ReadResponse") @@ [size |-> None, data |-> NoneStr]
      [] klass = "Write" ->
           MessageBase("Write") @@ [fd |-> None, data |-> NoneStr]
      [] klass = "WriteResponse" ->
           Response("WriteResponse") @@ [size |-> None]
      [] klass = "Close" ->
           MessageBase("Close") @@ [fd |-> None]
      [] klass = "CloseResponse" ->
           Response("CloseResponse")
      [] klass = "Stat" ->
           MessageBase("Stat") @@ [path |-> NoneStr]
      [] klass = "StatResponse" ->
           Response("StatResponse") @@ [mode |-> None, uid |-> 0, gid |-> 0, size |-> None, atime |-> 0, mtime |-> 0, ctime |-> 0, user |-> Anonymous, group |-> Anonymous]
      [] klass = "LSeek" ->
           MessageBase("LSeek") @@ [fd |-> None, seektype |-> None, seekposition |-> None]
      [] klass = "LSeekResponse" ->
           Response("LSeekResponse")
      [] klass = "Unlink" ->
           MessageBase("Unlink") @@ [path |-> NoneStr]
      [] klass = "UnlinkResponse" ->
           Response("UnlinkResponse")
      [] klass = "ChMod" ->
           MessageBase("ChMod") @@ [mode |-> None, path |-> NoneStr]
      [] klass = "ChModResponse" ->
           Response("ChModResponse")
      [] klass = "Rename" ->
           MessageBase("Rename") @@ [source |-> NoneStr, destination |-> NoneStr]
      [] klass = "RenameResponse" ->
           Response("RenameResponse")
      [] klass = "Size" ->
           MessageBase("Size")
      [] klass = "SizeResponse" ->
           Response("SizeResponse") @@ [size |-> None]
      [] klass = "Free" ->
           MessageBase("Free")
      [] klass = "FreeResponse" ->
           Response("FreeResponse") @@ [free |-> None]

(***************************************************************************)
(* Session and basic directory messages (the variants of RunTests).        *)
(***************************************************************************)

Mount_do_DataToWire(m) ==
    IF Fits(m.ver_min, 1) /\ Fits(m.ver_maj, 1)
    THEN LE(m.ver_min, 1) \o LE(m.ver_maj, 1) \o CStr(m.location) \o CStr(m.user) \o CStr(m.password)
    ELSE Raised

Mount_do_DataFromWire(m, data) ==
    IF Len(Slice(data, 0, 2)) # 2 THEN Exc("struct.error")
    ELSE LET l == getCstr(data, 2)
             u == getCstr(data, l.pos)
             p == getCstr(data, u.pos)
         IN  IF l.exc \/ u.exc \/ p.exc THEN Exc("UnicodeDecodeError")
             ELSE [m EXCEPT !.ver_maj = data[2], !.ver_min = data[1],
                            !.location = l.string, !.user = u.string,
                            !.password = p.string]


MountResponse_do_DataToWire(m) ==
    IF Fits(m.ver_min, 1) /\ Fits(m.ver_maj, 1) /\ (m.reply = 0 => Fits(m.retry_delay, 2))
    THEN LE(m.ver_min, 1) \o LE(m.ver_maj, 1)
         \o (IF m.reply = 0 THEN LE(m.retry_delay, 2) ELSE <<>>)
    ELSE Raised

MountResponse_do_DataFromWire(m, data) ==
    IF Len(Slice(data, 0, 2)) # 2 THEN Exc("struct.error")
    ELSE IF m.reply = 0 /\ Len(From(data, 2)) # 2 THEN Exc("struct.error")
    ELSE [m EXCEPT !.ver_maj = data[2], !.ver_min = data[1],
                   !.retry_delay = IF m.reply = 0 THEN UnLE(From(data, 2)) ELSE None]


OpenDir_do_DataToWire(m) == CStr(m.path)
OpenDir_do_DataFromWire(m, data) ==
    LET c == getCstr(data, 0)
    IN  IF c.exc THEN Exc("UnicodeDecodeError") ELSE [m EXCEPT !.path = c.string]

OpenDirResponse_do_DataToWire(m) ==
    IF m.reply = 0 THEN (IF Fits(m.handle, 1) THEN LE(m.handle, 1) ELSE Raised) ELSE <<>>
OpenDirResponse_do_DataFromWire(m, data) ==
    IF m.reply = 0
    THEN IF Len(Slice(data, 0, 1)) # 1 THEN Exc("struct.error")
         ELSE [m EXCEPT !.handle = data[1]]
    ELSE [m EXCEPT !.handle = None]

ReadDir_do_DataToWire(m) == IF Fits(m.handle, 1) THEN LE(m.handle, 1) ELSE Raised
ReadDir_do_DataFromWire(m, data) ==
    IF Len(Slice(data, 0, 1)) # 1 THEN Exc("struct.error")
    ELSE [m EXCEPT !.handle = data[1]]

ReadDirResponse_do_DataToWire(m) == IF m.reply = 0 THEN CStr(m.path) ELSE <<>>
ReadDirResponse_do_DataFromWire(m, data) ==
    IF m.reply = 0
    THEN LET c == getCstr(data, 0)
         IN  IF c.exc THEN Exc("UnicodeDecodeError") ELSE [m EXCEPT !.path = c.string]
    ELSE [m EXCEPT !.path = NoneStr]

CloseDir_do_DataToWire(m) == IF Fits(m.handle, 1) THEN LE(m.handle, 1) ELSE Raised
CloseDir_do_DataFromWire(m, data) ==
    IF Len(Slice(data, 0, 1)) # 1 THEN Exc("struct.error")
    ELSE [m EXCEPT !.handle = data[1]]


MkDir_do_DataToWire(m) == CStr(m.path)
MkDir_do_DataFromWire(m, data) ==
    LET c == getCstr(data, 0)
    IN  IF c.exc THEN Exc("UnicodeDecodeError") ELSE [m EXCEPT !.path = c.string]

RmDir_do_DataToWire(m) == CStr(m.path)
RmDir_do_DataFromWire(m, data) ==
    LET c == getCstr(data, 0)
    IN  IF c.exc THEN Exc("UnicodeDecodeError") ELSE [m EXCEPT !.path = c.string]

(***************************************************************************)
(* Extended directory messages.                                            *)
(***************************************************************************)
OpenDirX_do_DataToWire(m) ==
    IF Fits(m.dirOptions, 1) /\ Fits(m.sortOptions, 1) /\ Fits(m.maxResults, 2)
    THEN LE(m.dirOptions, 1) \o LE(m.sortOptions, 1) \o LE(m.maxResults, 2)
         \o CStr(m.pattern) \o CStr(m.path)
    ELSE Raised
\* reads one string at offset 0 of the payload and stores it as the path
OpenDirX_do_DataFromWire(m, data) ==
    LET c == getCstr(data, 0)
    IN  IF c.exc THEN Exc("UnicodeDecodeError") ELSE [m EXCEPT !.path = c.string]

OpenDirXResponse_do_DataToWire(m) ==
    IF m.reply = 0 THEN (IF Fits(m.handle, 1) THEN LE(m.handle, 1) ELSE Raised) ELSE <<>>
OpenDirXResponse_do_DataFromWire(m, data) ==
    IF Len(data) < 3 THEN m
    ELSE IF m.reply # 0 THEN m
    ELSE LET c == getCstr(From(data, 3), 0)
         IN  IF c.exc THEN Exc("UnicodeDecodeError")
             ELSE Set(Set(Set(m, "handle", data[1]), "entries", UnLE(Slice(data, 1, 3))),
                      "path", c.string)

ReadDirX_do_DataToWire(m) ==
    IF Fits(m.handle, 1) /\ Fits(m.maxEntries, 1)
    THEN LE(m.handle, 1) \o LE(m.maxEntries, 1) ELSE Raised
ReadDirX_do_DataFromWire(m, data) ==
    IF Len(Slice(data, 0, 1)) # 1 THEN Exc("struct.error")
    ELSE [m EXCEPT !.handle = data[1]]

\* DirEntry with its setters; ctime and mtime are kept as the second counts
\* that setCtime/setMtime hand to localtime
DirEntry(flags, size, ctime, mtime, name) ==
    [flags |-> flags, size |-> size, ctime |-> ctime, mtime |-> mtime, name |-> name]

RECURSIVE ReadDirXEntries(_, _, _, _)
\* the for loop of ReadDirXResponse.do_DataFromWire: i entries left to read at pos
ReadDirXEntries(data, pos, i, entries) ==
    IF i = 0 THEN [entries |-> entries]
    ELSE IF pos = None THEN Exc("TypeError")
    ELSE IF Len(Slice(data, pos, pos + 13)) # 13 THEN Exc("struct.error")
    ELSE LET c == getCstr(data, pos + 13)
         IN  IF c.exc THEN Exc("UnicodeDecodeError")
             ELSE ReadDirXEntries(data, c.pos, i - 1,
                      Append(entries,
                             DirEntry(data[pos + 1],
                                      UnLE(Slice(data, pos + 1, pos + 5)),
                                      UnLE(Slice(data, pos + 9, pos + 13)),
                                      UnLE(Slice(data, pos + 5, pos + 9)),
                                      c.string)))

ReadDirXResponse_do_DataToWire(m) == IF m.reply = 0 THEN CStr(m.path) ELSE <<>>
ReadDirXResponse_do_DataFromWire(m, data) ==
    IF m.reply # 0 THEN m
    ELSE IF Len(Slice(data, 0, 4)) # 4 THEN Exc("struct.error")
    ELSE LET r == ReadDirXEntries(data, 4, data[1], <<>>)
         IN  IF IsExc(r) THEN r
             ELSE Set(Set(Set(m, "status", data[2]), "dpos", UnLE(Slice(data, 2, 4))),
                      "entries", List(r.entries))

(***************************************************************************)
(* File messages.                                                          *)
(***************************************************************************)
Open_do_DataToWire(m) ==
    IF Fits(m.flags, 2) /\ Fits(m.mode, 2)
    THEN LE(m.flags, 2) \o LE(m.mode, 2) \o CStr(m.path) ELSE Raised
Open_do_DataFromWire(m, data) ==
    IF Len(Slice(data, 0, 4)) # 4 THEN Exc("struct.error")
    ELSE LET c == getCstr(data, 4)
         IN  IF c.exc THEN Exc("UnicodeDecodeError")
             ELSE [m EXCEPT !.flags = UnLE(Slice(data, 0, 2)),
                            !.mode = UnLE(Slice(data, 2, 4)), !.path = c.string]

OpenResponse_do_DataToWire(m) ==
    IF m.reply = 0 THEN (IF Fits(m.fd, 1) THEN LE(m.fd, 1) ELSE Raised) ELSE <<>>
\* OpenResponse.do_DataFromWire unpacking before it looks at the status
OpenResponse_do_DataFromWire_eager(m, data) ==
    IF Len(data) # 1 THEN Exc("struct.error")
    ELSE [m EXCEPT !.fd = IF m.reply = 0 THEN data[1] ELSE None]

\* unpacks the whole payload: it must be exactly one byte long
OpenResponse_do_DataFromWire(m, data) ==
    IF m.reply = 0
    THEN IF Len(data) # 1 THEN Exc("struct.error") ELSE [m EXCEPT !.fd = data[1]]
    ELSE [m EXCEPT !.fd = None]

Read_do_DataToWire(m) ==
    IF Fits(m.fd, 1) /\ Fits(m.size, 2) THEN LE(m.fd, 1) \o LE(m.size, 2) ELSE Raised
Read_do_DataFromWire(m, data) ==
    IF Len(data) # 3 THEN Exc("struct.error")
    ELSE [m EXCEPT !.fd = data[1], !.size = UnLE(Slice(data, 1, 3))]

\* the data attribute is not written
ReadResponse_do_DataToWire(m) ==
    IF m.reply = 0 THEN (IF Fits(m.size, 2) THEN LE(m.size, 2) ELSE Raised) ELSE <<>>
ReadResponse_do_DataFromWire(m, data) ==
    IF m.reply = 0
    THEN IF Len(Slice(data, 0, 2)) # 2 THEN Exc("struct.error")
         ELSE [m EXCEPT !.size = UnLE(Slice(data, 0, 2)), !.data = From(data, 2)]
    ELSE [m EXCEPT !.size = None, !.data = NoneStr]

Write_do_DataToWire(m) ==
    IF m.data # NoneStr /\ Fits(m.fd, 1) /\ Fits(Len(m.data), 2)
    THEN LE(m.fd, 1) \o LE(Len(m.data), 2) \o m.data ELSE Raised
Write_do_DataFromWire(m, data) ==
    IF Len(Slice(data, 0, 3)) # 3 THEN Exc("struct.error")
    ELSE [m EXCEPT !.fd = data[1], !.data = From(data, 3)]

WriteResponse_do_DataToWire(m) ==
    IF m.reply = 0 THEN (IF Fits(m.size, 2) THEN LE(m.size, 2) ELSE Raised) ELSE <<>>
WriteResponse_do_DataFromWire(m, data) ==
    IF m.reply = 0
    THEN IF Len(data) # 2 THEN Exc("struct.error") ELSE [m EXCEPT !.size = UnLE(data)]
    ELSE [m EXCEPT !.size = None]

Close_do_DataToWire(m) == IF Fits(m.fd, 1) THEN LE(m.fd, 1) ELSE Raised
Close_do_DataFromWire(m, data) ==
    IF Len(data) # 1 THEN Exc("struct.error") ELSE [m EXCEPT !.fd = data[1]]

Stat_do_DataToWire(m) == CStr(m.path)
Stat_do_DataFromWire(m, data) ==
    LET c == getCstr(data, 0)
    IN  IF c.exc THEN Exc("UnicodeDecodeError") ELSE [m EXCEPT !.path = c.string]

\* packs the numeric attributes whatever the status
StatResponse_do_DataToWire(m) ==
    IF Fits(m.mode, 2) /\ Fits(m.uid, 2) /\ Fits(m.gid, 2) /\ Fits(m.size, 4)
       /\ Fits(m.atime, 4) /\ Fits(m.mtime, 4) /\ Fits(m.ctime, 4)
    THEN LE(m.mode, 2) \o LE(m.uid, 2) \o LE(m.gid, 2) \o LE(m.size, 4)
         \o LE(m.atime, 4) \o LE(m.mtime, 4) \o LE(m.ctime, 4)
         \o CStr(m.user) \o CStr(m.group)
    ELSE Raised
StatResponse_do_DataFromWire(m, data) ==
    IF m.reply = 0
    THEN IF Len(Slice(data, 0, 22)) # 22 THEN Exc("struct.error")
         ELSE LET u == getCstr(data, 22)
                  g == getCstr(data, u.pos)
                  n == [m EXCEPT !.mode = UnLE(Slice(data, 0, 2)),
                                 !.uid = UnLE(Slice(data, 2, 4)),
                                 !.gid = UnLE(Slice(data, 4, 6)),
                                 !.size = UnLE(Slice(data, 6, 10)),
                                 !.atime = UnLE(Slice(data, 10, 14)),
                                 !.mtime = UnLE(Slice(data, 14, 18)),
                                 !.ctime = UnLE(Slice(data, 18, 22))]
              IN  IF Len(data) > 22
                  THEN IF u.exc \/ g.exc THEN Exc("UnicodeDecodeError")
                       ELSE [n EXCEPT !.user = u.string, !.group = g.string]
                  ELSE [n EXCEPT !.user = Anonymous, !.group = Anonymous]
    ELSE [m EXCEPT !.mode = None, !.uid = None, !.gid = None, !.size = None,
                   !.atime = None, !.mtime = None, !.ctime = None,
                   !.user = Anonymous, !.group = Anonymous]

LSeek_do_DataToWire(m) ==
    IF Fits(m.fd, 1) /\ Fits(m.seektype, 1) /\ FitsI32(m.seekposition)
    THEN LE(m.fd, 1) \o LE(m.seektype, 1) \o LEi32(m.seekposition) ELSE Raised
LSeek_do_DataFromWire(m, data) ==
    IF Len(data) # 6 THEN Exc("struct.error")
    ELSE [m EXCEPT !.fd = data[1], !.seektype = data[2],
                   !.seekposition = UnLEi32(From(data, 2))]

Unlink_do_DataToWire(m) == CStr(m.path)
Unlink_do_DataFromWire(m, data) ==
    LET c == getCstr(data, 0)
    IN  IF c.exc THEN Exc("UnicodeDecodeError") ELSE [m EXCEPT !.path = c.string]

ChMod_do_DataToWire(m) == IF Fits(m.mode, 2) THEN LE(m.mode, 2) \o CStr(m.path) ELSE Raised
\* declared as do_DataFromWire(self): the call fromWire makes, with the
\* payload as an argument, raises TypeError before the body runs
ChMod_do_DataFromWire(m, data) == Exc("TypeError")

Rename_do_DataToWire(m) == CStr(m.source) \o CStr(m.destination)
Rename_do_DataFromWire(m, data) ==
    LET a == getCstr(data, 0)
        b == getCstr(data, a.pos)
    IN  IF a.exc \/ b.exc THEN Exc("UnicodeDecodeError")
        ELSE [m EXCEPT !.source = a.string, !.destination = b.string]

(***************************************************************************)
(* Filesystem messages.                                                    *)
(***************************************************************************)
\* packs the size whatever the status
SizeResponse_do_DataToWire(m) == IF Fits(m.size, 4) THEN LE(m.size, 4) ELSE Raised
SizeResponse_do_DataFromWire(m, data) ==
    IF m.reply = 0
    THEN IF Len(data) # 4 THEN Exc("struct.error") ELSE [m EXCEPT !.size = UnLE(data)]
    ELSE [m EXCEPT !.size = None]

FreeResponse_do_DataToWire(m) == IF Fits(m.free, 4) THEN LE(m.free, 4) ELSE Raised
FreeResponse_do_DataFromWire(m, data) ==
    IF m.reply = 0
    THEN IF Len(data) # 4 THEN Exc("struct.error") ELSE [m EXCEPT !.free = UnLE(data)]
    ELSE [m EXCEPT !.free = None]

(***************************************************************************)
(* MessageBase.toWire and MessageBase.fromWire, with the method each class *)
(* supplies (MessageBase's own do_* methods where a class defines none).   *)
(***************************************************************************)
do_ExtraToWire(m) ==
    IF m.klass \in ResponseKlasses THEN Response_do_ExtraToWire(m) ELSE <<>>

do_ExtraFromWire(m, data) ==
    IF m.klass \in ResponseKlasses THEN Response_do_ExtraFromWire(m, data)
    ELSE [m |-> m, pos |-> 0]

do_DataToWire(m) ==
    CASE m.klass = "Mount" -> Mount_do_DataToWire(m)
      [] m.klass = "MountResponse" -> MountResponse_do_DataToWire(m)
      [] m.klass = "OpenDir" -> OpenDir_do_DataToWire(m)
      [] m.klass = "OpenDirResponse" -> OpenDirResponse_do_DataToWire(m)
      [] m.klass = "ReadDir" -> ReadDir_do_DataToWire(m)
      [] m.klass = "ReadDirResponse" -> ReadDirResponse_do_DataToWire(m)
      [] m.klass = "CloseDir" -> CloseDir_do_DataToWire(m)
      [] m.klass = "MkDir" -> MkDir_do_DataToWire(m)
      [] m.klass = "RmDir" -> RmDir_do_DataToWire(m)
      [] m.klass = "OpenDirX" -> OpenDirX_do_DataToWire(m)
      [] m.klass = "OpenDirXResponse" -> OpenDirXResponse_do_DataToWire(m)
      [] m.klass = "ReadDirX" -> ReadDirX_do_DataToWire(m)
      [] m.klass = "ReadDirXResponse" -> ReadDirXResponse_do_DataToWire(m)
      [] m.klass = "Open" -> Open_do_DataToWire(m)
      [] m.klass = "OpenResponse" -> OpenResponse_do_DataToWire(m)
      [] m.klass = "Read" -> Read_do_DataToWire(m)
      [] m.klass = "ReadResponse" -> ReadResponse_do_DataToWire(m)
      [] m.klass = "Write" -> Write_do_DataToWire(m)
      [] m.klass = "WriteResponse" -> WriteResponse_do_DataToWire(m)
      [] m.klass = "Close" -> Close_do_DataToWire(m)
      [] m.klass = "Stat" -> Stat_do_DataToWire(m)
      [] m.klass = "StatResponse" -> StatResponse_do_DataToWire(m)
      [] m.klass = "LSeek" -> LSeek_do_DataToWire(m)
      [] m.klass = "Unlink" -> Unlink_do_DataToWire(m)
      [] m.klass = "ChMod" -> ChMod_do_DataToWire(m)
      [] m.klass = "Rename" -> Rename_do_DataToWire(m)
      [] m.klass = "SizeResponse" -> SizeResponse_do_DataToWire(m)
      [] m.klass = "FreeResponse" -> FreeResponse_do_DataToWire(m)
      [] OTHER -> <<>>

do_DataFromWire(m, data) ==
    CASE m.klass = "Mount" -> Mount_do_DataFromWire(m, data)
      [] m.klass = "MountResponse" -> MountResponse_do_DataFromWire(m, data)
      [] m.klass = "OpenDir" -> OpenDir_do_DataFromWire(m, data)
      [] m.klass = "OpenDirResponse" -> OpenDirResponse_do_DataFromWire(m, data)
      [] m.klass = "ReadDir" -> ReadDir_do_DataFromWire(m, data)
      [] m.klass = "ReadDirResponse" -> ReadDirResponse_do_DataFromWire(m, data)
      [] m.klass = "CloseDir" -> CloseDir_do_DataFromWire(m, data)
      [] m.klass = "MkDir" -> MkDir_do_DataFromWire(m, data)
      [] m.klass = "RmDir" -> RmDir_do_DataFromWire(m, data)
      [] m.klass = "OpenDirX" -> OpenDirX_do_DataFromWire(m, data)
      [] m.klass = "OpenDirXResponse" -> OpenDirXResponse_do_DataFromWire(m, data)
      [] m.klass = "ReadDirX" -> ReadDirX_do_DataFromWire(m, data)
      [] m.klass = "ReadDirXResponse" -> ReadDirXResponse_do_DataFromWire(m, data)
      [] m.klass = "Open" -> Open_do_DataFromWire(m, data)
      [] m.klass = "OpenResponse" -> OpenResponse_do_DataFromWire(m, data)
      [] m.klass = "Read" -> Read_do_DataFromWire(m, data)
      [] m.klass = "ReadResponse" -> ReadResponse_do_DataFromWire(m, data)
      [] m.klass = "Write" -> Write_do_DataFromWire(m, data)
      [] m.klass = "WriteResponse" -> WriteResponse_do_DataFromWire(m, data)
      [] m.klass = "Close" -> Close_do_DataFromWire(m, data)
      [] m.klass = "Stat" -> Stat_do_DataFromWire(m, data)
      [] m.klass = "StatResponse" -> StatResponse_do_DataFromWire(m, data)
      [] m.klass = "LSeek" -> LSeek_do_DataFromWire(m, data)
      [] m.klass = "Unlink" -> Unlink_do_DataFromWire(m, data)
      [] m.klass = "ChMod" -> ChMod_do_DataFromWire(m, data)
      [] m.klass = "Rename" -> Rename_do_DataFromWire(m, data)
      [] m.klass = "SizeResponse" -> SizeResponse_do_DataFromWire(m, data)
      [] m.klass = "FreeResponse" -> FreeResponse_do_DataFromWire(m, data)
      [] OTHER -> m

\* a header that packs a conn_id of None as 0
Header_noneAsZero(m) ==
    IF Fits(m.retry, 1) /\ Fits(m.command, 1)
    THEN LE(IF m.conn_id = None THEN 0 ELSE m.conn_id, 2)
         \o LE(m.retry, 1) \o LE(m.command, 1)
    ELSE Raised

\* struct.pack("<HBB", conn_id, retry, command)
Header(m) ==
    IF Fits(m.conn_id, 2) /\ Fits(m.retry, 1) /\ Fits(m.command, 1)
    THEN LE(m.conn_id, 2) \o LE(m.retry, 1) \o LE(m.command, 1)
    ELSE Raised

toWire(m) ==
    LET h == Header(m)
        e == do_ExtraToWire(m)
        d == do_DataToWire(m)
    IN  IF h = Raised \/ e = Raised \/ d = Raised THEN Raised ELSE h \o e \o d

\* fromWire that takes a reply whatever its opcode
fromWire_anyOpcode(m, data) ==
    IF Len(Slice(data, 0, 4)) # 4 THEN Exc("struct.error")
    ELSE LET m1 == setRetry(setSession(m, UnLE(Slice(data, 0, 2))), data[3])
             x == do_ExtraFromWire(m1, From(data, 4))
         IN  IF IsExc(x) THEN x
             ELSE do_DataFromWire(x.m, From(data, 4 + x.pos))

\* m is the object fromWire is called on
fromWire(m, data) ==
    IF Len(Slice(data, 0, 4)) # 4 THEN Exc("struct.error")
    ELSE IF data[4] # TnfsCmd(m.klass) THEN Exc("ValueError")
    ELSE LET m1 == setRetry(setSession(m, UnLE(Slice(data, 0, 2))), data[3])
             x == do_ExtraFromWire(m1, From(data, 4))
         IN  IF IsExc(x) THEN x
             ELSE do_DataFromWire(x.m, From(data, 4 + x.pos))

(***************************************************************************)
(* Test(klass, initfunc): build, encode, decode into a fresh object,       *)
(* encode again, compare.                                                  *)
(***************************************************************************)
\* m is klass() after initfunc; the result tells how Test ends
Test(klass, m) ==
    LET w == toWire(m)
        d == IF w = Raised THEN Exc("struct.error") ELSE fromWire(New(klass), w)
        w2 == IF IsExc(d) THEN Raised ELSE toWire(d)
    IN  [w |-> w, m |-> d, w2 |-> w2,
         end |-> IF w = Raised \/ IsExc(d) \/ w2 = Raised THEN "raised"
                 ELSE IF w = w2 THEN "Success" ELSE "RuntimeError"]

(***************************************************************************)
(* The field values the codec is exercised on.                             *)
(***************************************************************************)
MaxStrLen == 2
MaxDataLen == 1

Chars == {47, 97}
DataBytes == {0, 200}

SeqsUpTo(S, n) == UNION {[1..k -> S] : k \in 0..n}
Strs == SeqsUpTo(Chars, MaxStrLen)
Datas == SeqsUpTo(DataBytes, MaxDataLen)

SessIds == {0, 48879}
Retries == {0, 255}
U8s == {0, 31, 255}
U16s == {0, 4999, 65535}
U32s == {1, 70000}
I32s == {0, 70000, -2}
Statuses == {0, 1, 255}
\* (major, minor)
Versions == {<<1, 2>>, <<2, 6>>, <<1, 10>>}
EntryLists == {<<>>, <<DirEntry(1, 2, 3, 4, <<97>>)>>}

\* a payload attribute of a response: set when the status is 0, set or left
\* None otherwise
Opt(reply, dom, none) == IF reply = 0 THEN dom ELSE dom \cup {none}

\* the objects of a class with its attributes set, session and retry apart
Bodies(klass) ==
    LET n == New(klass) IN
    CASE klass = "Mount" ->
           {[n EXCEPT !.ver_maj = v[1], !.ver_min = v[2], !.location = l, !.user = u,
                      !.password = pw] : v \in Versions, l \in Strs, u \in Strs, pw \in Strs}
      [] klass = "MountResponse" ->
           UNION {{[setReply(n, r) EXCEPT !.ver_maj = v[1], !.ver_min = v[2],
                                          !.retry_delay = d] :
                   v \in Versions, d \in Opt(r, U16s, None)} : r \in Statuses}
      [] klass \in {"OpenDir", "MkDir", "RmDir", "Stat", "Unlink"} ->
           {[n EXCEPT !.path = pa] : pa \in Strs}
      [] klass \in {"OpenDirResponse"} ->
           UNION {{[setReply(n, r) EXCEPT !.handle = h] : h \in Opt(r, U8s, None)} :
                  r \in Statuses}
      [] klass \in {"ReadDir", "CloseDir"} -> {[n EXCEPT !.handle = h] : h \in U8s}
      [] klass = "ReadDirResponse" ->
           UNION {{[setReply(n, r) EXCEPT !.path = pa] : pa \in Opt(r, Strs, NoneStr)} :
                  r \in Statuses}
      [] klass = "OpenDirX" ->
           {[n EXCEPT !.path = pa, !.pattern = pt, !.dirOptions = o[1],
                      !.sortOptions = o[2], !.maxResults = mr] :
            pa \in Strs, pt \in Strs, o \in {<<0, 0>>, <<8, 2>>}, mr \in {3, 65535}}
      [] klass = "OpenDirXResponse" ->
           UNION {{[setReply(n, r) EXCEPT !.handle = h, !.entries = e] :
                   h \in Opt(r, U8s, None), e \in {0, 5}} : r \in Statuses}
      [] klass = "ReadDirX" ->
           {[n EXCEPT !.handle = h, !.maxEntries = e] : h \in U8s, e \in {0, 4}}
      [] klass = "ReadDirXResponse" ->
           UNION {{Set(Set([setReply(n, r) EXCEPT !.path = pa, !.entries = List(e)],
                           "status", st), "dpos", 0) :
                   pa \in Opt(r, Strs, NoneStr), e \in EntryLists, st \in {0, 1}} :
                  r \in Statuses}
      [] klass = "Open" ->
           {[n EXCEPT !.flags = f, !.mode = mo, !.path = pa] :
            f \in {1, 770}, mo \in {0, 384}, pa \in Strs}
      [] klass = "OpenResponse" ->
           UNION {{[setReply(n, r) EXCEPT !.fd = h] : h \in Opt(r, U8s, None)} :
                  r \in Statuses}
      [] klass = "Read" -> {[n EXCEPT !.fd = h, !.size = z] : h \in U8s, z \in {1, 512}}
      [] klass = "ReadResponse" ->
           UNION {{[setReply(n, r) EXCEPT !.size = Len(d), !.data = d] : d \in Datas}
                  \cup (IF r = 0 THEN {} ELSE {setReply(n, r)}) : r \in Statuses}
      [] klass = "Write" -> {[n EXCEPT !.fd = h, !.data = d] : h \in U8s, d \in Datas}
      [] klass = "WriteResponse" ->
           UNION {{[setReply(n, r) EXCEPT !.size = z] : z \in Opt(r, {0, 512}, None)} :
                  r \in Statuses}
      [] klass = "Close" -> {[n EXCEPT !.fd = h] : h \in U8s}
      [] klass = "StatResponse" ->
           UNION {{[setReply(n, r) EXCEPT !.mode = mo, !.uid = id[1], !.gid = id[2],
                                          !.size = z, !.atime = t[1], !.mtime = t[2],
                                          !.ctime = t[3], !.user = u, !.group = g] :
                   mo \in {33188}, id \in {<<0, 0>>, <<1000, 100>>}, z \in U32s,
                   t \in {<<0, 0, 0>>, <<3, 2, 1>>}, u \in Strs, g \in Strs}
                  \cup (IF r = 0 THEN {} ELSE {setReply(n, r)}) : r \in Statuses}
      [] klass = "LSeek" ->
           {[n EXCEPT !.fd = h, !.seektype = w, !.seekposition = o] :
            h \in U8s, w \in {0, 2}, o \in I32s}
      [] klass = "ChMod" -> {[n EXCEPT !.mode = mo, !.path = pa] : mo \in {420}, pa \in Strs}
      [] klass = "Rename" ->
           {[n EXCEPT !.source = a, !.destination = b] : a \in Strs, b \in Strs}
      [] klass = "SizeResponse" ->
           UNION {{[setReply(n, r) EXCEPT !.size = z] : z \in Opt(r, U32s, None)} :
                  r \in Statuses}
      [] klass = "FreeResponse" ->
           UNION {{[setReply(n, r) EXCEPT !.free = z] : z \in Opt(r, U32s, None)} :
                  r \in Statuses}
      [] klass \in CommandKlasses -> {n}
      [] OTHER -> {setReply(n, r) : r \in Statuses}

\* the objects an initfunc of Test can build
Objects(klass) ==
    {setRetry(setSession(b, s), q) : b \in Bodies(klass), s \in SessIds, q \in Retries}

\* the variants RunTests exercises
RunTestsKlasses == {"Mount", "MountResponse", "Umount", "UmountResponse", "OpenDir",
                    "OpenDirResponse", "ReadDir", "ReadDirResponse", "CloseDir",
                    "CloseDirResponse"}

\* replies cut short: the header and status byte alone, and the header alone
ShortReplies(klass) ==
    {LE(s, 2) \o <<q, TnfsCmd(klass)>> \o st :
     s \in SessIds, q \in Retries, st \in {<<r>> : r \in Statuses} \cup {<<>>}}

(***************************************************************************)
(* The server and the network, as the Session sees them: what recvfrom     *)
(* yields for a datagram that was sent.                                    *)
(***************************************************************************)
Timeout == <<-3>>

ErrStatus == 33

\* what happens to one request: no reply within the timeout ("timeout"), a
\* reply with another opcode ("badop"), a reply cut after the header
\* ("short"), a reply cut after the status byte ("bare"), a full reply
\* ("reply") with the given status, session id (Mount), version (Mount) and
\* size n of its payload (a handle, a count of entries, a count of bytes), a
\* status-0 reply to a Read with the bytes it carries ("data"), a datagram
\* that was delivered before and arrives once more ("again")
Behaviour(kind, status, id, ver, n) ==
    [kind |-> kind, status |-> status, id |-> id, ver |-> ver, n |-> n]

ConnIds == {1, 2}
ReplyVersions == {<<1, 2>>, <<1, 1>>}
Handle == 7

\* the payload a server puts after status 0, by opcode
ReplyPayload(cmd, b) ==
    CASE cmd = 0 -> <<b.ver[2], b.ver[1]>> \o LE(1000, 2)
      [] cmd \in {16, 41} -> <<Handle>>
      [] cmd = 17 -> <<97, 0>>
      [] cmd = 23 -> <<Handle>> \o LE(b.n, 2)
      [] cmd = 24 -> <<b.n, (IF b.n = 0 THEN 1 ELSE 0), 0, 0>>
                     \o (IF b.n >= 1 THEN <<0>> \o LE(5, 4) \o LE(3, 4) \o LE(4, 4) \o <<97, 0>>
                         ELSE <<>>)
                     \o (IF b.n >= 2 THEN <<1>> \o LE(0, 4) \o LE(3, 4) \o LE(4, 4) \o <<47, 0>>
                         ELSE <<>>)
      [] cmd = 33 -> LE(b.n, 2) \o [i \in 1..b.n |-> 64 + i]
      [] cmd = 34 -> LE(b.n, 2)
      [] cmd = 36 -> LE(33188, 2) \o LE(0, 2) \o LE(0, 2) \o LE(b.n, 4)
                     \o LE(3, 4) \o LE(2, 4) \o LE(1, 4)
      [] cmd \in {48, 49} -> LE(70000, 4)
      [] OTHER -> <<>>

\* a server that holds no file and has no descriptor open
NoFile == [file |-> NoneStr, open |-> FALSE, cursor |-> 0]

\* the datagram recvfrom returns for the request w, or Timeout
Recv(b, w) ==
    LET cmd == w[4]
        id == IF cmd = 0 THEN b.id ELSE UnLE(Slice(w, 0, 2))
        hdr == LE(id, 2) \o <<w[3]>>
    IN  CASE b.kind = "timeout" -> Timeout
          [] b.kind = "badop" -> hdr \o <<(cmd + 1) % 256, 0>>
          [] b.kind = "short" -> hdr \o <<cmd>>
          [] b.kind = "bare" -> hdr \o <<cmd, b.status>>
          [] b.kind = "data" -> hdr \o <<cmd, 0>> \o LE(Len(b.data), 2) \o b.data
          [] b.kind = "again" -> b.datagram
          [] b.kind = "reply" ->
               hdr \o <<cmd, b.status>>
               \o (IF b.status = 0 THEN ReplyPayload(cmd, b)
                   ELSE IF cmd = 0 THEN <<b.ver[2], b.ver[1]>> ELSE <<>>)

MaxPayload == 2

\* the behaviours tried on a request with opcode cmd
Behaviours(cmd) ==
    {Behaviour(k, 0, 0, <<0, 0>>, 0) : k \in {"timeout", "badop", "short"}}
    \cup {Behaviour("bare", ErrStatus, 0, <<0, 0>>, 0)}
    \cup (IF cmd = 0
          THEN {Behaviour("reply", st, id, v, 0) :
                st \in {0, ErrStatus}, id \in ConnIds, v \in ReplyVersions}
          ELSE IF cmd \in {23, 24, 33, 34}
          THEN {Behaviour("reply", 0, 0, <<0, 0>>, n) : n \in 0..MaxPayload}
          ELSE {Behaviour("reply", 0, 0, <<0, 0>>, 0)})

(***************************************************************************)
(* Session.  A call runs on the record s: the Session's attributes         *)
(* (session, sequence, version), the behaviours still to come on the       *)
(* socket (net), and what the call has done so far: the datagrams it sent  *)
(* (sent) and the replies it received (replied).  A call that needs a      *)
(* behaviour when net is empty ends with "starved".                        *)
(***************************************************************************)
Ok(s, val) == [s |-> s, exc |-> "", val |-> val]
Fail(s, exc) == [s |-> s, exc |-> exc, val |-> <<>>]

\* _SendReceive that advances the sequence before it waits for the reply
SendReceive_earlyAdvance(s, message) ==
    With(toWire(setSession(setRetry(message, s.sequence), s.session)),
         LAMBDA w :
           IF w = Raised THEN [s |-> s, exc |-> "struct.error", data |-> <<>>]
           ELSE IF s.net = <<>>
           THEN [s |-> [s EXCEPT !.sent = Append(@, w)], exc |-> "starved", data |-> <<>>]
           ELSE With(Recv(Head(s.net), w),
                     LAMBDA in :
                       IF in = Timeout
                       THEN [s |-> [s EXCEPT !.sent = Append(@, w), !.net = Tail(@),
                                             !.sequence = (@ + 1) % 256],
                             exc |-> "TimeoutError", data |-> <<>>]
                       ELSE [s |-> [s EXCEPT !.sent = Append(@, w), !.net = Tail(@),
                                             !.sequence = (@ + 1) % 256,
                                             !.replied = @ + 1],
                             exc |-> "", data |-> in]))

\* Session._SendReceive: the message is stamped and encoded (struct.error
\* before anything is sent), sent, and the reply awaited; the sequence
\* advances once recvfrom has returned
SendReceive(s, message) ==
    With(toWire(setSession(setRetry(message, s.sequence), s.session)),
         LAMBDA w :
           IF w = Raised THEN [s |-> s, exc |-> "struct.error", data |-> <<>>]
           ELSE IF s.net = <<>>
           THEN [s |-> [s EXCEPT !.sent = Append(@, w)], exc |-> "starved", data |-> <<>>]
           ELSE With(Recv(Head(s.net), w),
                     LAMBDA in :
                       IF in = Timeout
                       THEN [s |-> [s EXCEPT !.sent = Append(@, w), !.net = Tail(@)],
                             exc |-> "TimeoutError", data |-> <<>>]
                       ELSE [s |-> [s EXCEPT !.sent = Append(@, w), !.net = Tail(@),
                                             !.sequence = (@ + 1) % 256,
                                             !.replied = @ + 1],
                             exc |-> "", data |-> in]))

\* data = self._SendReceive(message); r = klass().fromWire(data)
\* the two lines every operation starts with: the decoded reply in r
Exchange(s, message, klass) ==
    With(SendReceive(s, message),
         LAMBDA x :
           IF x.exc # "" THEN [s |-> x.s, exc |-> x.exc, r |-> [klass |-> klass]]
           ELSE With(fromWire(New(klass), x.data),
                     LAMBDA r :
                       IF IsExc(r) THEN [s |-> x.s, exc |-> r.exc, r |-> [klass |-> klass]]
                       ELSE [s |-> x.s, exc |-> "", r |-> r]))

\* a Mount that takes the session id of the reply whatever its status
Session_Mount_anyStatus(s, path) ==
    With(Exchange(s, [New("Mount") EXCEPT !.location = path], "MountResponse"),
         LAMBDA x : IF x.exc = "TimeoutError" THEN Fail(x.s, "SystemExit")
                    ELSE IF x.exc # "" THEN Fail(x.s, x.exc)
                    ELSE Ok([x.s EXCEPT !.session = x.r.conn_id],
                            <<x.r.reply, x.r.ver_maj, x.r.ver_min>>))

\* Session.Mount; a timeout ends in sys.exit(0)
Session_Mount(s, path) ==
    With(Exchange(s, [New("Mount") EXCEPT !.location = path], "MountResponse"),
         LAMBDA x : IF x.exc = "TimeoutError" THEN Fail(x.s, "SystemExit")
                    ELSE IF x.exc # "" THEN Fail(x.s, x.exc)
                    ELSE Ok(IF x.r.reply = 0 THEN [x.s EXCEPT !.session = x.r.conn_id] ELSE x.s,
                            <<x.r.reply, x.r.ver_maj, x.r.ver_min>>))

\* an Umount that keeps the session id when the server refuses
Session_Umount_onSuccess(s) ==
    With(Exchange(s, New("Umount"), "UmountResponse"),
         LAMBDA x : IF x.exc # "" THEN Fail(x.s, x.exc)
                    ELSE Ok(IF x.r.reply = 0 THEN [x.s EXCEPT !.session = None] ELSE x.s, x.r.reply))

\* Session.Umount
Session_Umount(s) ==
    With(Exchange(s, New("Umount"), "UmountResponse"),
         LAMBDA x : IF x.exc # "" THEN Fail(x.s, x.exc)
                    ELSE Ok([x.s EXCEPT !.session = None], x.r.reply))

\* Session.OpenDir
Session_OpenDir(s, path) ==
    With(Exchange(s, [New("OpenDir") EXCEPT !.path = path], "OpenDirResponse"),
         LAMBDA x : IF x.exc # "" THEN Fail(x.s, x.exc) ELSE Ok(x.s, <<x.r.reply, x.r.handle>>))

\* Session.ReadDir
Session_ReadDir(s, handle) ==
    With(Exchange(s, [New("ReadDir") EXCEPT !.handle = handle], "ReadDirResponse"),
         LAMBDA x : IF x.exc # "" THEN Fail(x.s, x.exc) ELSE Ok(x.s, <<x.r.reply, x.r.path>>))

\* str(n) for 0 <= n <= 999
Str(n) ==
    (IF n >= 100 THEN <<48 + (n \div 100)>> ELSE <<>>)
    \o (IF n >= 10 THEN <<48 + ((n \div 10) % 10)>> ELSE <<>>)
    \o <<48 + (n % 10)>>

\* f"{ver_maj}.{ver_min}"
VersionStr(ver_maj, ver_min) == Str(ver_maj) \o <<46>> \o Str(ver_min)

RECURSIVE StrLess(_, _)
\* a < b on str: the order of the code points, a proper prefix first
StrLess(a, b) ==
    IF b = <<>> THEN FALSE
    ELSE IF a = <<>> THEN TRUE
    ELSE IF a[1] # b[1] THEN a[1] < b[1]
    ELSE StrLess(Tail(a), Tail(b))

\* Session.OpenDirX; "1.2" is <<49, 46, 50>>
Session_OpenDirX(s, path, pattern, dirOptions, sortOptions, maxResults) ==
    IF StrLess(s.version, <<49, 46, 50>>) THEN Ok(s, <<None, None, None>>)
    ELSE With(Exchange(s, [New("OpenDirX") EXCEPT !.path = path, !.pattern = pattern,
                                                    !.dirOptions = dirOptions,
                                                    !.sortOptions = sortOptions,
                                                    !.maxResults = maxResults],
                            "OpenDirXResponse"),
              LAMBDA x : IF x.exc # "" THEN Fail(x.s, x.exc)
                         ELSE Ok(x.s, <<x.r.reply, x.r.handle, x.r.entries>>))

\* Session.ReadDirX
Session_ReadDirX(s, handle) ==
    With(Exchange(s, [New("ReadDirX") EXCEPT !.handle = handle], "ReadDirXResponse"),
         LAMBDA x : IF x.exc # "" THEN Fail(x.s, x.exc) ELSE Ok(x.s, [reply |-> x.r.reply, entries |-> x.r.entries]))

\* Session.CloseDir
Session_CloseDir(s, handle) ==
    With(Exchange(s, [New("CloseDir") EXCEPT !.handle = handle], "CloseDirResponse"),
         LAMBDA x : IF x.exc # "" THEN Fail(x.s, x.exc) ELSE Ok(x.s, x.r.reply))

\* Session.MkDir
Session_MkDir(s, path) ==
    With(Exchange(s, [New("MkDir") EXCEPT !.path = path], "MkDirResponse"),
         LAMBDA x : IF x.exc # "" THEN Fail(x.s, x.exc) ELSE Ok(x.s, x.r.reply))

\* Session.RmDir
Session_RmDir(s, path) ==
    With(Exchange(s, [New("RmDir") EXCEPT !.path = path], "RmDirResponse"),
         LAMBDA x : IF x.exc # "" THEN Fail(x.s, x.exc) ELSE Ok(x.s, x.r.reply))

\* Session.Open
Session_Open(s, path, flags, mode) ==
    With(Exchange(s, [New("Open") EXCEPT !.path = path, !.flags = flags, !.mode = mode],
                       "OpenResponse"),
         LAMBDA x : IF x.exc # "" THEN Fail(x.s, x.exc) ELSE Ok(x.s, <<x.r.reply, x.r.fd>>))

\* the state of r in Read and Write before the first exchange
Unbound == -4

\* what Session.Read returns once its loop has ended; r_reply is r.reply
Read_return(s, data_received, r_reply) ==
    IF Len(data_received) > 0 THEN Ok(s, <<0, data_received>>)
    ELSE IF r_reply = Unbound THEN Fail(s, "UnboundLocalError")
    ELSE Ok(s, <<r_reply, NoneStr>>)

RECURSIVE Read_loop(_, _, _, _, _)
\* a Read that asks for all that remains in one request
Read_loop_unclamped(s, fd, size, data_received, r_reply) ==
    IF size > 0
    THEN With(Exchange(s, [New("Read") EXCEPT !.fd = fd, !.size = size], "ReadResponse"),
              LAMBDA x : IF x.exc # "" THEN Fail(x.s, x.exc)
                         ELSE IF x.r.reply = 0
                         THEN Read_loop(x.s, fd, size - Len(x.r.data), data_received \o x.r.data, 0)
                         ELSE Read_return(x.s, data_received, x.r.reply))
    ELSE Read_return(s, data_received, r_reply)

\* the while loop of Session.Read
Read_loop(s, fd, size, data_received, r_reply) ==
    IF size > 0
    THEN With(Exchange(s, [New("Read") EXCEPT !.fd = fd,
                                                !.size = IF size <= 512 THEN size ELSE 512],
                            "ReadResponse"),
              LAMBDA x : IF x.exc # "" THEN Fail(x.s, x.exc)
                         ELSE IF x.r.reply = 0
                         THEN Read_loop(x.s, fd, size - Len(x.r.data), data_received \o x.r.data, 0)
                         ELSE Read_return(x.s, data_received, x.r.reply))
    ELSE Read_return(s, data_received, r_reply)

\* Session.Read
Session_Read(s, fd, size) == Read_loop(s, fd, size, <<>>, Unbound)

RECURSIVE Write_loop(_, _, _, _, _)
\* a Write whose slices end one byte early
Write_loop_shortSlice(s, fd, data_to_send, written, r_reply) ==
    IF written < Len(data_to_send)
    THEN With(Exchange(s, [New("Write") EXCEPT !.fd = fd,
                                                 !.data = Slice(data_to_send, written,
                                                                written + 511)],
                            "WriteResponse"),
              LAMBDA x : IF x.exc # "" THEN Fail(x.s, x.exc)
                         ELSE IF x.r.reply # 0 THEN Ok(x.s, <<x.r.reply, written>>)
                         ELSE Write_loop(x.s, fd, data_to_send, written + x.r.size, 0))
    ELSE IF r_reply = Unbound THEN Fail(s, "UnboundLocalError")
    ELSE Ok(s, <<r_reply, written>>)

\* a Write that advances by the length of the slice it sent
Write_loop_sliceAdvance(s, fd, data_to_send, written, r_reply) ==
    IF written < Len(data_to_send)
    THEN With(Exchange(s, [New("Write") EXCEPT !.fd = fd,
                                                 !.data = Slice(data_to_send, written,
                                                                written + 512)],
                            "WriteResponse"),
              LAMBDA x : IF x.exc # "" THEN Fail(x.s, x.exc)
                         ELSE IF x.r.reply # 0 THEN Ok(x.s, <<x.r.reply, written>>)
                         ELSE Write_loop(x.s, fd, data_to_send,
                                         Min(written + 512, Len(data_to_send)), 0))
    ELSE IF r_reply = Unbound THEN Fail(s, "UnboundLocalError")
    ELSE Ok(s, <<r_reply, written>>)

\* the while loop of Session.Write and its return
Write_loop(s, fd, data_to_send, written, r_reply) ==
    IF written < Len(data_to_send)
    THEN With(Exchange(s, [New("Write") EXCEPT !.fd = fd,
                                                 !.data = Slice(data_to_send, written,
                                                                written + 512)],
                            "WriteResponse"),
              LAMBDA x : IF x.exc # "" THEN Fail(x.s, x.exc)
                         ELSE IF x.r.reply # 0 THEN Ok(x.s, <<x.r.reply, written>>)
                         ELSE Write_loop(x.s, fd, data_to_send, written + x.r.size, 0))
    ELSE IF r_reply = Unbound THEN Fail(s, "UnboundLocalError")
    ELSE Ok(s, <<r_reply, written>>)

\* Session.Write
Session_Write(s, fd, data_to_send) == Write_loop(s, fd, data_to_send, 0, Unbound)

\* Session.Close
Session_Close(s, fd) ==
    With(Exchange(s, [New("Close") EXCEPT !.fd = fd], "CloseResponse"),
         LAMBDA x : IF x.exc # "" THEN Fail(x.s, x.exc) ELSE Ok(x.s, x.r.reply))

\* Session.Stat
Session_Stat(s, path) ==
    With(Exchange(s, [New("Stat") EXCEPT !.path = path], "StatResponse"),
         LAMBDA x : IF x.exc # "" THEN Fail(x.s, x.exc) ELSE Ok(x.s, [reply |-> x.r.reply, r |-> x.r]))

\* Session.LSeek
Session_LSeek(s, fd, offset, whence) ==
    With(Exchange(s, [New("LSeek") EXCEPT !.fd = fd, !.seekposition = offset,
                                            !.seektype = whence], "LSeekResponse"),
         LAMBDA x : IF x.exc # "" THEN Fail(x.s, x.exc) ELSE Ok(x.s, x.r.reply))

\* Session.Unlink
Session_Unlink(s, path) ==
    With(Exchange(s, [New("Unlink") EXCEPT !.path = path], "UnlinkResponse"),
         LAMBDA x : IF x.exc # "" THEN Fail(x.s, x.exc) ELSE Ok(x.s, x.r.reply))

\* Session.Rename
Session_Rename(s, source, destination) ==
    With(Exchange(s, [New("Rename") EXCEPT !.source = source,
                                             !.destination = destination], "RenameResponse"),
         LAMBDA x : IF x.exc # "" THEN Fail(x.s, x.exc) ELSE Ok(x.s, x.r.reply))

\* Session.ChMod
Session_ChMod(s, path, mode) ==
    With(Exchange(s, [New("ChMod") EXCEPT !.path = path, !.mode = mode], "ChModResponse"),
         LAMBDA x : IF x.exc # "" THEN Fail(x.s, x.exc) ELSE Ok(x.s, x.r.reply))

\* Session.GetFilesystemSize
Session_GetFilesystemSize(s) ==
    With(Exchange(s, New("Size"), "SizeResponse"),
         LAMBDA x : IF x.exc # "" THEN Fail(x.s, x.exc) ELSE Ok(x.s, <<x.r.reply, x.r.size>>))

\* Session.GetFilesystemFree
Session_GetFilesystemFree(s) ==
    With(Exchange(s, New("Free"), "FreeResponse"),
         LAMBDA x : IF x.exc # "" THEN Fail(x.s, x.exc) ELSE Ok(x.s, <<x.r.reply, x.r.free>>))

(***************************************************************************)
(* The composites.                                                         *)
(***************************************************************************)
\* the end of ListDir and ListDirX: CloseDir when there is a handle
CloseAndReturn(s, handle, contents) ==
    IF handle # None
    THEN With(Session_CloseDir(s, handle),
              LAMBDA c : IF c.exc # "" THEN Fail(c.s, c.exc) ELSE Ok(c.s, contents))
    ELSE Ok(s, contents)

RECURSIVE ListDir_loop(_, _, _, _)
\* the while loop of Session.ListDir and what follows it
ListDir_loop(s, handle, reply, contents) ==
    IF reply = 0
    THEN With(Session_ReadDir(s, handle),
              LAMBDA x : IF x.exc # "" THEN Fail(x.s, x.exc)
                         ELSE ListDir_loop(x.s, handle, x.val[1],
                                           IF x.val[1] = 0 THEN Append(contents, x.val[2])
                                           ELSE contents))
    ELSE CloseAndReturn(s, handle, contents)

\* Session.ListDir
Session_ListDir(s, path) ==
    With(Session_OpenDir(s, path),
         LAMBDA o : IF o.exc # "" THEN Fail(o.s, o.exc)
                    ELSE ListDir_loop(o.s, o.val[2], o.val[1], <<>>))

RECURSIVE ListDirX_loop(_, _, _, _, _)
\* the while loop of Session.ListDirX and what follows it; len(entries)
\* raises TypeError when ReadDirX returned no list
ListDirX_loop(s, handle, reply, numEntries, contents) ==
    IF reply = 0 /\ numEntries > 0
    THEN With(Session_ReadDirX(s, handle),
              LAMBDA x : IF x.exc # "" THEN Fail(x.s, x.exc)
                         ELSE IF x.val.entries.isNone THEN Fail(x.s, "TypeError")
                         ELSE ListDirX_loop(x.s, handle, x.val.reply,
                                            numEntries - Len(x.val.entries.list),
                                            IF x.val.reply = 0 THEN contents \o x.val.entries.list
                                            ELSE contents))
    ELSE CloseAndReturn(s, handle, List(contents))

\* Session.ListDirX; the value is None (NoneList) or the list of entries
Session_ListDirX(s, path, pattern, dirOptions, sortOptions, maxResults) ==
    With(Session_OpenDirX(s, path, pattern, dirOptions, sortOptions, maxResults),
         LAMBDA o : IF o.exc # "" THEN Fail(o.s, o.exc)
                    ELSE IF o.val[1] = None THEN Ok(o.s, NoneList)
                    ELSE ListDirX_loop(o.s, o.val[2], o.val[1], o.val[3], <<>>))

RECURSIVE GetFile_loop(_, _, _, _)
\* a GetFile that reads once and closes
GetFile_loop_singleRead(s, fd, reply, data) ==
    IF reply = 0
    THEN With(Session_Read(s, fd, 4096),
              LAMBDA x : IF x.exc # "" THEN Fail(x.s, x.exc)
                         ELSE GetFile_loop(x.s, fd, ErrStatus,
                                           IF x.val[1] = 0 THEN data \o x.val[2] ELSE data))
    ELSE With(Session_Close(s, fd),
              LAMBDA c : IF c.exc # "" THEN Fail(c.s, c.exc) ELSE Ok(c.s, data))

\* the while loop of Session.GetFile, the Close and the return
GetFile_loop(s, fd, reply, data) ==
    IF reply = 0
    THEN With(Session_Read(s, fd, 4096),
              LAMBDA x : IF x.exc # "" THEN Fail(x.s, x.exc)
                         ELSE GetFile_loop(x.s, fd, x.val[1],
                                           IF x.val[1] = 0 THEN data \o x.val[2] ELSE data))
    ELSE With(Session_Close(s, fd),
              LAMBDA c : IF c.exc # "" THEN Fail(c.s, c.exc) ELSE Ok(c.s, data))

\* a GetFile that goes on without a file descriptor
Session_GetFile_noCheck(s, path) ==
    With(Session_Open(s, path, 0, 0),
         LAMBDA o : IF o.exc # "" THEN Fail(o.s, o.exc)
                    ELSE GetFile_loop(o.s, o.val[2], o.val[1], <<>>))

\* Session.GetFile; the value is None (NoneStr) or the bytes of the file
Session_GetFile(s, path) ==
    With(Session_Open(s, path, 0, 0),
         LAMBDA o : IF o.exc # "" THEN Fail(o.s, o.exc)
                    ELSE IF o.val[2] = None THEN Ok(o.s, NoneStr)
                    ELSE GetFile_loop(o.s, o.val[2], o.val[1], <<>>))

RECURSIVE PutFile_loop(_, _, _, _)
\* the while loop of Session.PutFile and the Close
PutFile_loop(s, fd, data, pos) ==
    IF pos < Len(data)
    THEN With(Session_Write(s, fd, Slice(data, pos, pos + 4096)),
              LAMBDA x : IF x.exc # "" THEN Fail(x.s, x.exc)
                         ELSE PutFile_loop(x.s, fd, data, pos + 4096))
    ELSE With(Session_Close(s, fd),
              LAMBDA c : IF c.exc # "" THEN Fail(c.s, c.exc) ELSE Ok(c.s, None))

\* Session.PutFile, opening with O_WRONLY | O_CREAT | O_TRUNC and mode 0o600
Session_PutFile(s, path, data) ==
    With(Session_Open(s, path, 770, 384),
         LAMBDA o : IF o.exc # "" THEN Fail(o.s, o.exc)
                    ELSE IF o.val[2] = None THEN Ok(o.s, None)
                    ELSE PutFile_loop(o.s, o.val[2], data, 0))

\* the version a Session holds before its constructor has set one
NoVersion == <<>>

\* the attributes Session.__init__ sets before it calls Mount
NewSession(net) ==
    [session |-> None, sequence |-> 0, version |-> NoVersion,
     net |-> net, sent |-> <<>>, replied |-> 0]

\* Session.__init__
Session_init(s) ==
    With(Session_Mount(s, <<47>>),
         LAMBDA m : IF m.exc # "" THEN Fail(m.s, m.exc)
                    ELSE Ok([m.s EXCEPT !.version = VersionStr(m.val[2], m.val[3])], None))

\* Session.__exit__
Session_exit(s) ==
    IF s.session # None
    THEN With(Session_Umount(s),
              LAMBDA u : IF u.exc # "" THEN Fail(u.s, u.exc)
                         ELSE Ok([u.s EXCEPT !.session = None], None))
    ELSE Ok(s, None)

\* a MountResponse cut after the two version bytes that follow the status
MountReplies ==
    {LE(s, 2) \o <<q, TnfsCmd("MountResponse"), r, v[2], v[1]>> :
     s \in SessIds, q \in Retries, r \in Statuses \ {0}, v \in Versions}

\* a ReadDirResponse of status 0 whose name has no terminator
UnterminatedReplies ==
    {LE(s, 2) \o <<q, TnfsCmd("ReadDirResponse"), 0>> \o name :
     s \in SessIds, q \in Retries, name \in Strs}

\* the buffers fromWire is exercised on directly
Buffers(klass) ==
    ShortReplies(klass) \cup (IF klass = "MountResponse" THEN MountReplies ELSE {})
    \cup (IF klass = "ReadDirResponse" THEN UnterminatedReplies ELSE {})

\* the threads of SpecPair, each with a Session of its own
Threads == {1, 2}

\* a thread that has not built its Session yet: the attributes of the
\* Session now (session, sequence, version) and when the call under way
\* began (start), the call and the behaviours it has met (script), the calls
\* made so far (calls), every datagram sent on the socket (wire) with what
\* happened to it (heard) and the number of the call that sent it (sender),
\* and how many there were when the call under way began (base)
NewThread ==
    [pc |-> "new", session |-> None, sequence |-> 0, version |-> NoVersion,
     start |-> [session |-> None, sequence |-> 0, version |-> NoVersion],
     call |-> [op |-> "none"], script |-> <<>>, exc |-> "",
     calls |-> <<>>, wire |-> <<>>, heard |-> <<>>, sender |-> <<>>, base |-> 0]

(***************************************************************************)
(* State.                                                                  *)
(***************************************************************************)
VARIABLES
    cphase,     \* codec exercise: "test", "decode" (input chosen), "tested", "decoded"
    cklass,     \* the class under exercise
    cobj,       \* the object initfunc built (cphase "test")
    cbuf,       \* the buffer handed to fromWire (cphase "decode")
    cres,       \* what Test / fromWire produced
    pc,         \* "new": no Session yet; "live"; "failed": the constructor raised;
                \* "exited": sys.exit ended the process
    session,    \* Session.session (the conn_id)
    sequence,   \* Session.sequence
    version,    \* Session.version
    call,       \* the last call made on the Session
    sent,       \* the datagrams the last call sent, in order
    net,        \* what happened to each of them
    ret,        \* how the last call ended: the exception or the value returned
    prev,       \* session, sequence and version when the last call began
    nReplied,   \* replies that arrived since construction began
    mounted,    \* the session id of the last status-0 Mount reply, None before
    umounted,   \* an Umount has returned
    negotiated, \* the version (major, minor) of the last status-0 Mount reply
    disk,       \* the file server of SpecFile: its file, cursor and descriptor
    nCalls,     \* the calls made against that server
    threads     \* SpecPair: the Session of each thread and what the thread is doing

codecVars == <<cphase, cklass, cobj, cbuf, cres>>
sessionVars == <<pc, session, sequence, version, call, sent, net, ret, prev, nReplied,
                 mounted, umounted, negotiated, disk, nCalls>>
vars == <<codecVars, sessionVars, threads>>

\* no Session is modelled
SessionIdle ==
    /\ pc = "idle" /\ session = None /\ sequence = 0 /\ version = NoVersion
    /\ call = [op |-> "none"] /\ sent = <<>> /\ net = <<>>
    /\ ret = [exc |-> ""]
    /\ prev = [session |-> None, sequence |-> 0, version |-> NoVersion]
    /\ nReplied = 0 /\ mounted = None /\ umounted = FALSE
    /\ negotiated = NoVersion /\ disk = NoFile /\ nCalls = 0
    /\ threads = [t \in Threads |-> NewThread]

(***************************************************************************)
(* The codec exercised on its own: Test on every object, fromWire on       *)
(* every buffer.                                                           *)
(***************************************************************************)
CodecInit ==
    /\ SessionIdle
    /\ cres = [end |-> "none"]
    /\ \E k \in CommandKlasses \cup ResponseKlasses :
         /\ cklass = k
         /\ \/ cphase = "test" /\ cobj \in Objects(k) /\ cbuf = <<>>
            \/ cphase = "decode" /\ k \in ResponseKlasses /\ cobj = New(k)
               /\ cbuf \in Buffers(k)

CodecIdle ==
    /\ cphase = "idle" /\ cklass = "" /\ cobj = [klass |-> ""] /\ cbuf = <<>>
    /\ cres = [end |-> "none"]

RunTest ==
    /\ cphase = "test"
    /\ cres' = Test(cklass, cobj)
    /\ cphase' = "tested"
    /\ UNCHANGED <<cklass, cobj, cbuf, sessionVars, threads>>

Decode ==
    /\ cphase = "decode"
    /\ cres' = [end |-> "decoded", m |-> fromWire(cobj, cbuf)]
    /\ cphase' = "decoded"
    /\ UNCHANGED <<cklass, cobj, cbuf, sessionVars, threads>>

CodecNext == RunTest \/ Decode

SpecCodec == CodecInit /\ [][CodecNext]_vars

(***************************************************************************)
(* One Session and its caller.  Every action is one call, from entry to    *)
(* return or exception, with the behaviour of the network for each         *)
(* datagram the call sends.                                                *)
(***************************************************************************)
MaxCallNet == 4
MaxExchanges == 4
MaxSoak == 258

Path == <<47>>
Names == {<<65>>, <<65, 66>>}

RECURSIVE Outcomes(_, _, _)
\* how a call can go: R(script) is the call run with the behaviours of
\* script waiting on the socket.  A script is extended, by each behaviour
\* possible for the datagram left unanswered, while the call starves on it,
\* up to depth more behaviours.  An outcome is a script with the call's end.
Outcomes(R(_), script, depth) ==
    With(R(script),
         LAMBDA r :
           IF r.exc # "starved" THEN {[script |-> script, r |-> r]}
           ELSE IF depth = 0 THEN {}
           ELSE UNION {Outcomes(R, Append(script, b), depth - 1) :
                       b \in Behaviours(r.s.sent[Len(r.s.sent)][4])})

\* the Session as the next call finds it
Self ==
    [session |-> session, sequence |-> sequence, version |-> version,
     net |-> <<>>, sent |-> <<>>, replied |-> 0]

\* the replies among the behaviours
Replies(script) == {i \in 1..Len(script) : script[i].kind # "timeout"}

\* the session id the server handed out in the call, if it did
Granted(c, script, before) ==
    IF c.op \in {"init", "Mount"} /\ Len(script) = 1
       /\ script[1].kind = "reply" /\ script[1].status = 0
    THEN script[1].id ELSE before

\* the version the server stated in the call, if it granted a session
Negotiated(c, script, before) ==
    IF c.op \in {"init", "Mount"} /\ Len(script) = 1
       /\ script[1].kind = "reply" /\ script[1].status = 0
    THEN script[1].ver ELSE before

\* the call c, which runs R, made on the Session s0 while fewer than limit
\* replies have arrived
Perform(R(_), c, s0, limit) ==
    \E o \in Outcomes(LAMBDA script : R([s0 EXCEPT !.net = script]), <<>>,
                      Min(MaxCallNet, limit - nReplied)) :
        /\ pc' = IF o.r.exc = "SystemExit" THEN "exited"
                 ELSE IF c.op = "init" /\ o.r.exc # "" THEN "failed"
                 ELSE "live"
        /\ session' = o.r.s.session
        /\ sequence' = o.r.s.sequence
        /\ version' = o.r.s.version
        /\ call' = c
        /\ sent' = o.r.s.sent
        /\ net' = o.script
        /\ ret' = [exc |-> o.r.exc, val |-> o.r.val]
        /\ prev' = [session |-> s0.session, sequence |-> s0.sequence,
                    version |-> s0.version]
        /\ nReplied' = nReplied + Cardinality(Replies(o.script))
        /\ mounted' = Granted(c, o.script, mounted)
        /\ umounted' = (umounted \/ (c.op = "Umount" /\ o.r.exc = ""))
        /\ negotiated' = Negotiated(c, o.script, negotiated)
        /\ UNCHANGED <<codecVars, disk, nCalls, threads>>

SessionInit ==
    /\ CodecIdle
    /\ pc = "new" /\ session = None /\ sequence = 0 /\ version = NoVersion
    /\ call = [op |-> "none"] /\ sent = <<>> /\ net = <<>>
    /\ ret = [exc |-> "", val |-> None]
    /\ prev = [session |-> None, sequence |-> 0, version |-> NoVersion]
    /\ nReplied = 0 /\ mounted = None /\ umounted = FALSE
    /\ negotiated = NoVersion /\ disk = NoFile /\ nCalls = 0
    /\ threads = [t \in Threads |-> NewThread]

\* Session(address)
DoConstruct ==
    /\ pc = "new"
    /\ Perform(LAMBDA s : Session_init(s), [op |-> "init"], NewSession(<<>>), MaxExchanges)
DoExit ==
    /\ pc = "live"
    /\ Perform(LAMBDA s : Session_exit(s),
               [op |-> "exit"], Self, MaxExchanges)
DoMount ==
    /\ pc = "live"
    /\ Perform(LAMBDA s : Session_Mount(s, Path),
               [op |-> "Mount", path |-> Path], Self, MaxExchanges)
DoUmount ==
    /\ pc = "live"
    /\ Perform(LAMBDA s : Session_Umount(s),
               [op |-> "Umount"], Self, MaxExchanges)
DoOpenDir ==
    /\ pc = "live"
    /\ Perform(LAMBDA s : Session_OpenDir(s, Path),
               [op |-> "OpenDir", path |-> Path], Self, MaxExchanges)
DoReadDir ==
    /\ pc = "live"
    /\ Perform(LAMBDA s : Session_ReadDir(s, Handle),
               [op |-> "ReadDir", handle |-> Handle], Self, MaxExchanges)
DoOpenDirX ==
    /\ pc = "live"
    /\ Perform(LAMBDA s : Session_OpenDirX(s, Path, <<>>, 0, 0, 65535),
               [op |-> "OpenDirX", path |-> Path], Self, MaxExchanges)
DoReadDirX ==
    /\ pc = "live"
    /\ Perform(LAMBDA s : Session_ReadDirX(s, Handle),
               [op |-> "ReadDirX", handle |-> Handle], Self, MaxExchanges)
DoCloseDir ==
    /\ pc = "live"
    /\ Perform(LAMBDA s : Session_CloseDir(s, Handle),
               [op |-> "CloseDir", handle |-> Handle], Self, MaxExchanges)
DoMkDir ==
    /\ pc = "live"
    /\ Perform(LAMBDA s : Session_MkDir(s, Path),
               [op |-> "MkDir", path |-> Path], Self, MaxExchanges)
DoRmDir ==
    /\ pc = "live"
    /\ Perform(LAMBDA s : Session_RmDir(s, Path),
               [op |-> "RmDir", path |-> Path], Self, MaxExchanges)
DoOpen ==
    /\ pc = "live"
    /\ Perform(LAMBDA s : Session_Open(s, Path, 0, 0),
               [op |-> "Open", path |-> Path], Self, MaxExchanges)
DoClose ==
    /\ pc = "live"
    /\ Perform(LAMBDA s : Session_Close(s, Handle),
               [op |-> "Close", fd |-> Handle], Self, MaxExchanges)
DoStat ==
    /\ pc = "live"
    /\ Perform(LAMBDA s : Session_Stat(s, Path),
               [op |-> "Stat", path |-> Path], Self, MaxExchanges)
DoLSeek ==
    /\ pc = "live"
    /\ Perform(LAMBDA s : Session_LSeek(s, Handle, 5, 0),
               [op |-> "LSeek", fd |-> Handle, offset |-> 5], Self, MaxExchanges)
DoUnlink ==
    /\ pc = "live"
    /\ Perform(LAMBDA s : Session_Unlink(s, Path),
               [op |-> "Unlink", path |-> Path], Self, MaxExchanges)
DoRename ==
    /\ pc = "live"
    /\ Perform(LAMBDA s : Session_Rename(s, Path, <<47, 97>>),
               [op |-> "Rename", path |-> Path, destination |-> <<47, 97>>], Self, MaxExchanges)
DoChMod ==
    /\ pc = "live"
    /\ Perform(LAMBDA s : Session_ChMod(s, Path, 420),
               [op |-> "ChMod", path |-> Path], Self, MaxExchanges)
DoGetFilesystemSize ==
    /\ pc = "live"
    /\ Perform(LAMBDA s : Session_GetFilesystemSize(s),
               [op |-> "GetFilesystemSize"], Self, MaxExchanges)
DoGetFilesystemFree ==
    /\ pc = "live"
    /\ Perform(LAMBDA s : Session_GetFilesystemFree(s),
               [op |-> "GetFilesystemFree"], Self, MaxExchanges)

Next ==
    \/ DoConstruct \/ DoExit \/ DoMount \/ DoUmount
    \/ DoOpenDir \/ DoReadDir \/ DoOpenDirX \/ DoReadDirX \/ DoCloseDir
    \/ DoMkDir \/ DoRmDir \/ DoOpen \/ DoClose
    \/ DoStat \/ DoLSeek \/ DoUnlink \/ DoRename \/ DoChMod
    \/ DoGetFilesystemSize \/ DoGetFilesystemFree

Spec == SessionInit /\ [][Next]_vars

(***************************************************************************)
(* The calls that make several exchanges: the chunked Read and Write and   *)
(* the composites.                                                         *)
(***************************************************************************)
MultiConstruct ==
    /\ pc = "new"
    /\ Perform(LAMBDA s : Session_init(s), [op |-> "init"], NewSession(<<>>), MaxExchanges)
DoRead ==
    \E size \in 0..MaxPayload :
        /\ pc = "live"
        /\ Perform(LAMBDA s : Session_Read(s, Handle, size),
                   [op |-> "Read", fd |-> Handle, size |-> size], Self, MaxExchanges)
DoWrite ==
    \E data \in Names \cup {<<>>} :
        /\ pc = "live"
        /\ Perform(LAMBDA s : Session_Write(s, Handle, data),
                   [op |-> "Write", fd |-> Handle, data |-> data], Self, MaxExchanges)
DoListDir ==
    /\ pc = "live"
    /\ Perform(LAMBDA s : Session_ListDir(s, Path),
               [op |-> "ListDir", path |-> Path], Self, MaxExchanges)
DoListDirX ==
    /\ pc = "live"
    /\ Perform(LAMBDA s : Session_ListDirX(s, Path, <<>>, 0, 0, 65535),
               [op |-> "ListDirX", path |-> Path], Self, MaxExchanges)
DoGetFile ==
    /\ pc = "live"
    /\ Perform(LAMBDA s : Session_GetFile(s, Path),
               [op |-> "GetFile", path |-> Path], Self, MaxExchanges)
DoPutFile ==
    \E data \in Names \cup {<<>>} :
        /\ pc = "live"
        /\ Perform(LAMBDA s : Session_PutFile(s, Path, data),
                   [op |-> "PutFile", path |-> Path, data |-> data], Self, MaxExchanges)

MultiNext ==
    \/ MultiConstruct \/ DoRead \/ DoWrite
    \/ DoListDir \/ DoListDirX \/ DoGetFile \/ DoPutFile

SpecMulti == SessionInit /\ [][MultiNext]_vars

(***************************************************************************)
(* The same Session kept in use until its sequence counter has wrapped.    *)
(***************************************************************************)
SoakConstruct ==
    /\ pc = "new"
    /\ Perform(LAMBDA s : Session_init(s), [op |-> "init"], NewSession(<<>>), MaxSoak)
SoakStat ==
    /\ pc = "live"
    /\ Perform(LAMBDA s : Session_Stat(s, Path),
               [op |-> "Stat", path |-> Path], Self, MaxSoak)
SoakReadDir ==
    /\ pc = "live"
    /\ Perform(LAMBDA s : Session_ReadDir(s, Handle),
               [op |-> "ReadDir", handle |-> Handle], Self, MaxSoak)

SoakNext == SoakConstruct \/ SoakStat \/ SoakReadDir

SpecSoak == SessionInit /\ [][SoakNext]_vars

(***************************************************************************)
(* One Session against a server that keeps a file: it stores every write   *)
(* at the cursor of the descriptor, accepts each slice in full, serves     *)
(* reads from the cursor and answers a Read at the end of the file with    *)
(* the EOF status.  The caller pairs every Open with a Close.              *)
(***************************************************************************)
MaxFileCalls == 3
MaxServed == 16

\* the file contents written: n bytes, each told from its neighbours
Bytes(n) == [i \in 1..n |-> (i * 7) % 251]
FileLens == {0, 1, 513, 1024, 1500, 4097}

\* the server's answer to the datagram w and its state afterwards; the
\* statuses are ENOENT (2), EBADF (9) and EOF (ErrStatus)
Answer(d, w) ==
    CASE w[4] = 0 -> [d |-> d, b |-> Behaviour("reply", 0, 1, <<1, 2>>, 0)]
      [] w[4] = 41 ->
           With(UnLE(Slice(w, 4, 6)),
                LAMBDA flags :
                  IF d.file = NoneStr /\ (flags \div 256) % 2 = 0
                  THEN [d |-> d, b |-> Behaviour("bare", 2, 0, <<0, 0>>, 0)]
                  ELSE [d |-> [file |-> IF d.file = NoneStr \/ (flags \div 512) % 2 = 1
                                        THEN <<>> ELSE d.file,
                               open |-> TRUE, cursor |-> 0],
                        b |-> Behaviour("reply", 0, 0, <<0, 0>>, 0)])
      [] w[4] = 33 /\ d.open /\ d.cursor < Len(d.file) ->
           With(Slice(d.file, d.cursor, d.cursor + UnLE(Slice(w, 5, 7))),
                LAMBDA data :
                  [d |-> [d EXCEPT !.cursor = @ + Len(data)],
                   b |-> [kind |-> "data", status |-> 0, id |-> 0, ver |-> <<0, 0>>,
                          n |-> Len(data), data |-> data]])
      [] w[4] = 33 /\ d.open ->
           [d |-> d, b |-> Behaviour("bare", ErrStatus, 0, <<0, 0>>, 0)]
      [] w[4] = 34 /\ d.open ->
           With(From(w, 7),
                LAMBDA data :
                  [d |-> [d EXCEPT !.file = Slice(@, 0, d.cursor) \o data
                                            \o From(@, d.cursor + Len(data)),
                                   !.cursor = @ + Len(data)],
                   b |-> Behaviour("reply", 0, 0, <<0, 0>>, Len(data))])
      [] w[4] = 35 /\ d.open ->
           [d |-> [d EXCEPT !.open = FALSE], b |-> Behaviour("reply", 0, 0, <<0, 0>>, 0)]
      [] OTHER -> [d |-> d, b |-> Behaviour("bare", 9, 0, <<0, 0>>, 0)]

\* the server in the state d0 before the call has run: no answer given,
\* the call not ended
Unserved(d0) == [d |-> d0, script |-> <<>>, ended |-> FALSE, r |-> Fail(Self, "starved")]

\* one round of the call R against the server, which is in the state p.d
\* and has given the answers p.script: the call has ended with r, or it
\* waits on a datagram that has no answer yet and the server answers it
Grow(R(_), p) ==
    IF p.ended THEN p
    ELSE With(R(p.script),
              LAMBDA r : IF r.exc # "starved" THEN [p EXCEPT !.ended = TRUE, !.r = r]
                         ELSE With(Answer(p.d, r.s.sent[Len(r.s.sent)]),
                                   LAMBDA a : [p EXCEPT !.d = a.d,
                                                        !.script = Append(@, a.b)]))

RECURSIVE Grown(_, _, _)
\* n rounds from p, the first half of them before the second
Grown(R(_), p, n) ==
    IF n = 1 THEN Grow(R, p)
    ELSE With(Grown(R, p, n \div 2),
              LAMBDA q : IF q.ended THEN q ELSE Grown(R, q, n - n \div 2))

\* the call R run against the server from the state d0: the script holds
\* the server's answer to every datagram of the call, and the call has ended
Served(R(_), d0, depth) ==
    With(Grown(R, Unserved(d0), depth + 1),
         LAMBDA p : IF p.ended THEN {[script |-> p.script, r |-> p.r, d |-> p.d]} ELSE {})

\* the call c, which runs R, made on the Session against the server
PerformServed(R(_), c, s0) ==
    \E o \in Served(LAMBDA script : R([s0 EXCEPT !.net = script]), disk, MaxServed) :
        /\ pc' = IF o.r.exc = "SystemExit" THEN "exited"
                 ELSE IF c.op = "init" /\ o.r.exc # "" THEN "failed"
                 ELSE "live"
        /\ session' = o.r.s.session
        /\ sequence' = o.r.s.sequence
        /\ version' = o.r.s.version
        /\ call' = c
        /\ sent' = o.r.s.sent
        /\ net' = o.script
        /\ ret' = [exc |-> o.r.exc, val |-> o.r.val]
        /\ prev' = [session |-> s0.session, sequence |-> s0.sequence,
                    version |-> s0.version]
        /\ nReplied' = nReplied + Cardinality(Replies(o.script))
        /\ mounted' = Granted(c, o.script, mounted)
        /\ umounted' = (umounted \/ (c.op = "Umount" /\ o.r.exc = ""))
        /\ negotiated' = Negotiated(c, o.script, negotiated)
        /\ disk' = o.d
        /\ nCalls' = nCalls + 1
        /\ UNCHANGED <<codecVars, threads>>

FileConstruct ==
    /\ pc = "new"
    /\ PerformServed(LAMBDA s : Session_init(s), [op |-> "init"], NewSession(<<>>))
FileOpen ==
    \E flags \in {0, 770} :
        /\ pc = "live" /\ nCalls <= MaxFileCalls /\ ~disk.open
        /\ PerformServed(LAMBDA s : Session_Open(s, Path, flags, 384),
                         [op |-> "Open", path |-> Path, flags |-> flags], Self)
FileWrite ==
    \E n \in FileLens :
        /\ pc = "live" /\ nCalls <= MaxFileCalls /\ disk.open
        /\ PerformServed(LAMBDA s : Session_Write(s, Handle, Bytes(n)),
                         [op |-> "Write", fd |-> Handle, data |-> Bytes(n)], Self)
FileClose ==
    /\ pc = "live" /\ nCalls <= MaxFileCalls /\ disk.open
    /\ PerformServed(LAMBDA s : Session_Close(s, Handle),
                     [op |-> "Close", fd |-> Handle], Self)
FilePutFile ==
    \E n \in FileLens :
        /\ pc = "live" /\ nCalls <= MaxFileCalls /\ ~disk.open
        /\ PerformServed(LAMBDA s : Session_PutFile(s, Path, Bytes(n)),
                         [op |-> "PutFile", path |-> Path, data |-> Bytes(n)], Self)
FileGetFile ==
    /\ pc = "live" /\ nCalls <= MaxFileCalls /\ ~disk.open
    /\ PerformServed(LAMBDA s : Session_GetFile(s, Path),
                     [op |-> "GetFile", path |-> Path], Self)

FileNext ==
    \/ FileConstruct \/ FileOpen \/ FileWrite \/ FileClose
    \/ FilePutFile \/ FileGetFile

SpecFile == SessionInit /\ [][FileNext]_vars

(***************************************************************************)
(* Two threads, each with its own Session on its own socket.  A thread     *)
(* advances by one step: it enters a call and runs it up to its first      *)
(* recvfrom, or it comes back from recvfrom and runs on to the next one or *)
(* to the end of the call.  The steps of the two threads interleave        *)
(* freely.                                                                 *)
(***************************************************************************)
MaxPairSent == 3
MaxPairCalls == 2

\* what the server and the network do to a datagram of thread t: no reply,
\* a reply with an error status, a reply with status 0; the session id a
\* Mount grants is the thread's number, no two Sessions get the same
PairBehaviours(t) ==
    {Behaviour("timeout", 0, 0, <<0, 0>>, 0),
     Behaviour("reply", ErrStatus, 0, <<1, 2>>, 0),
     Behaviour("reply", 0, t, <<1, 2>>, 0)}

\* the call c made on the Session s
PairRun(c, s) ==
    CASE c.op = "init" -> Session_init(s)
      [] c.op = "Stat" -> Session_Stat(s, Path)
      [] c.op = "ListDir" -> Session_ListDir(s, Path)
      [] c.op = "Umount" -> Session_Umount(s)

\* a Session whose sequence counter is an attribute of the class, the same
\* for every Session: here the counter of thread 1's
PairSelf_sharedSequence(th, script) ==
    [session |-> th.start.session, sequence |-> threads[1].sequence,
     version |-> th.start.version,
     net |-> script, sent |-> <<>>, replied |-> 0]

\* the Session of the thread th as the call under way found it, with the
\* behaviours script on its socket
PairSelf(th, script) ==
    [session |-> th.start.session, sequence |-> th.start.sequence,
     version |-> th.start.version,
     net |-> script, sent |-> <<>>, replied |-> 0]

\* thread th after its call c has run through the behaviours script and
\* come to r: at its next recvfrom ("starved") or at its end
Advanced(th, c, script, r) ==
    [th EXCEPT !.pc = IF r.exc = "starved" THEN "busy"
                      ELSE IF r.exc = "SystemExit" THEN "exited"
                      ELSE IF c.op = "init" /\ r.exc # "" THEN "failed"
                      ELSE "idle",
               !.session = r.s.session, !.sequence = r.s.sequence,
               !.version = r.s.version,
               !.call = c, !.script = script,
               !.exc = IF r.exc = "starved" THEN "" ELSE r.exc,
               !.wire = SubSeq(th.wire, 1, th.base) \o r.s.sent,
               !.heard = SubSeq(th.heard, 1, th.base) \o script,
               !.sender = SubSeq(th.sender, 1, th.base)
                          \o [i \in 1..Len(r.s.sent) |-> Len(th.calls)]]

\* the thread th runs its call c through the behaviours script
Step(t, th, c, script) ==
    With(PairRun(c, PairSelf(th, script)),
         LAMBDA r :
           /\ th.base + Len(r.s.sent) <= MaxPairSent
           /\ threads' = [threads EXCEPT ![t] = Advanced(th, c, script, r)]
           /\ UNCHANGED <<codecVars, sessionVars>>)

\* thread t enters the call c
Enter(t, c) ==
    Step(t, [threads[t] EXCEPT !.start = [session |-> threads[t].session,
                                         sequence |-> threads[t].sequence,
                                         version |-> threads[t].version],
                              !.base = Len(threads[t].wire),
                              !.calls = Append(@, c.op)],
         c, <<>>)

PairConstruct ==
    \E t \in Threads :
        /\ threads[t].pc = "new"
        /\ Enter(t, [op |-> "init"])
PairStat ==
    \E t \in Threads :
        /\ threads[t].pc = "idle" /\ Len(threads[t].calls) <= MaxPairCalls
        /\ Enter(t, [op |-> "Stat"])
PairListDir ==
    \E t \in Threads :
        /\ threads[t].pc = "idle" /\ Len(threads[t].calls) <= MaxPairCalls
        /\ Enter(t, [op |-> "ListDir"])
PairUmount ==
    \E t \in Threads :
        /\ threads[t].pc = "idle" /\ Len(threads[t].calls) <= MaxPairCalls
        /\ Enter(t, [op |-> "Umount"])

\* recvfrom returns, or times out, in thread t
PairReceive ==
    \E t \in Threads :
        /\ threads[t].pc = "busy"
        /\ \E b \in PairBehaviours(t) :
             Step(t, threads[t], threads[t].call, Append(threads[t].script, b))

PairNext == PairConstruct \/ PairStat \/ PairListDir \/ PairUmount \/ PairReceive

SpecPair == SessionInit /\ [][PairNext]_vars

(***************************************************************************)
(* One Session and its caller again, with sizes and buffers longer than    *)
(* one exchange can carry: a Read of more than 512 bytes, a Write of more  *)
(* than 512 bytes, a PutFile of more than 4096 bytes, each made on a       *)
(* Session fresh from its constructor.  The server answers as it likes,    *)
(* with short batches and with refusals.                                   *)
(***************************************************************************)
MaxChunkReplies == 5

ChunkSizes == {1, 513, 1025}
ChunkDatas == {Bytes(n) : n \in {1, 513, 4097}}

ChunkConstruct ==
    /\ pc = "new"
    /\ Perform(LAMBDA s : Session_init(s), [op |-> "init"], NewSession(<<>>),
               MaxChunkReplies)
ChunkRead ==
    \E size \in ChunkSizes :
        /\ pc = "live" /\ call.op = "init"
        /\ Perform(LAMBDA s : Session_Read(s, Handle, size),
                   [op |-> "Read", fd |-> Handle, size |-> size], Self, MaxChunkReplies)
ChunkWrite ==
    \E data \in ChunkDatas :
        /\ pc = "live" /\ call.op = "init"
        /\ Perform(LAMBDA s : Session_Write(s, Handle, data),
                   [op |-> "Write", fd |-> Handle, data |-> data], Self, MaxChunkReplies)
ChunkGetFile ==
    /\ pc = "live" /\ call.op = "init"
    /\ Perform(LAMBDA s : Session_GetFile(s, Path),
               [op |-> "GetFile", path |-> Path], Self, MaxChunkReplies)
ChunkPutFile ==
    \E data \in ChunkDatas :
        /\ pc = "live" /\ call.op = "init"
        /\ Perform(LAMBDA s : Session_PutFile(s, Path, data),
                   [op |-> "PutFile", path |-> Path, data |-> data], Self,
                   MaxChunkReplies)

ChunkNext ==
    \/ ChunkConstruct \/ ChunkRead \/ ChunkWrite \/ ChunkGetFile \/ ChunkPutFile

SpecChunk == SessionInit /\ [][ChunkNext]_vars

(***************************************************************************)
(* One Session on a transport that may deliver a datagram a second time,   *)
(* against servers of several versions.  recvfrom returns the datagram     *)
(* that is next on the socket: the reply to the request just sent, or a    *)
(* reply that this socket has delivered before.                            *)
(***************************************************************************)
MaxLateReplies == 4
MaxLateNet == 3

LateVersions == {<<1, 1>>, <<1, 2>>, <<1, 10>>, <<2, 0>>}
LateSizes == {2, 3}

\* what the server does to a request with opcode cmd
LateBehaviours(cmd) ==
    {Behaviour("timeout", 0, 0, <<0, 0>>, 0), Behaviour("bare", ErrStatus, 0, <<0, 0>>, 0)}
    \cup (IF cmd = 0 THEN {Behaviour("reply", 0, 1, v, 0) : v \in LateVersions}
          ELSE IF cmd = 33 THEN {Behaviour("reply", 0, 0, <<0, 0>>, n) : n \in 1..MaxPayload}
          ELSE {Behaviour("reply", 0, 0, <<0, 0>>, 1)})

\* the datagrams the socket delivered for the requests of requests, met by
\* the behaviours of script
Delivered(requests, script) ==
    {Recv(script[i], requests[i]) :
     i \in {j \in 1..Len(script) : script[j].kind # "timeout"}}

\* the arrival, once more, of one of the datagrams of old
Again(old) ==
    {[kind |-> "again", status |-> 0, id |-> 0, ver |-> <<0, 0>>, n |-> 0,
      datagram |-> d] : d \in old}

RECURSIVE LateOutcomes(_, _, _, _)
\* how a call can go on this transport: as Outcomes, and each recvfrom may
\* also return a datagram delivered before, in this call or in the call
\* before it (old)
LateOutcomes(R(_), script, depth, old) ==
    With(R(script),
         LAMBDA r :
           IF r.exc # "starved" THEN {[script |-> script, r |-> r]}
           ELSE IF depth = 0 THEN {}
           ELSE UNION {LateOutcomes(R, Append(script, b), depth - 1, old) :
                       b \in LateBehaviours(r.s.sent[Len(r.s.sent)][4])
                             \cup Again(old \cup Delivered(r.s.sent, script))})

\* the call c, which runs R, made on the Session s0 of this transport
LatePerform(R(_), c, s0) ==
    \E o \in LateOutcomes(LAMBDA script : R([s0 EXCEPT !.net = script]), <<>>,
                          Min(MaxLateNet, MaxLateReplies - nReplied),
                          Delivered(sent, net)) :
        /\ pc' = IF o.r.exc = "SystemExit" THEN "exited"
                 ELSE IF c.op = "init" /\ o.r.exc # "" THEN "failed"
                 ELSE "live"
        /\ session' = o.r.s.session
        /\ sequence' = o.r.s.sequence
        /\ version' = o.r.s.version
        /\ call' = c
        /\ sent' = o.r.s.sent
        /\ net' = o.script
        /\ ret' = [exc |-> o.r.exc, val |-> o.r.val]
        /\ prev' = [session |-> s0.session, sequence |-> s0.sequence,
                    version |-> s0.version]
        /\ nReplied' = nReplied + Cardinality(Replies(o.script))
        /\ mounted' = Granted(c, o.script, mounted)
        /\ umounted' = umounted
        /\ negotiated' = Negotiated(c, o.script, negotiated)
        /\ UNCHANGED <<codecVars, disk, nCalls, threads>>

LateConstruct ==
    /\ pc = "new"
    /\ LatePerform(LAMBDA s : Session_init(s), [op |-> "init"], NewSession(<<>>))
LateRead ==
    \E size \in LateSizes :
        /\ pc = "live"
        /\ LatePerform(LAMBDA s : Session_Read(s, Handle, size),
                       [op |-> "Read", fd |-> Handle, size |-> size], Self)
LateOpenDirX ==
    /\ pc = "live"
    /\ LatePerform(LAMBDA s : Session_OpenDirX(s, Path, <<>>, 0, 0, 65535),
                   [op |-> "OpenDirX", path |-> Path], Self)

LateNext == LateConstruct \/ LateRead \/ LateOpenDirX

SpecLate == SessionInit /\ [][LateNext]_vars

(***************************************************************************)
(* Properties of the codec.                                                *)
(***************************************************************************)
\* the attributes a class adds to the header and status
Payload(m) == DOMAIN m \ {"klass", "conn_id", "retry", "command", "reply"}

\* a response decoded from a non-zero status: every payload attribute is
\* as the constructor left it, or None
PayloadAbsent(m) ==
    \A f \in Payload(m) :
        \/ m[f] = New(m.klass)[f]
        \/ f \in {"uid", "gid", "atime", "mtime", "ctime"} /\ m[f] = None

\* C7 (as claimed): for every command and response variant and every legal
\* assignment of its fields, toWire, fromWire into a fresh object and toWire
\* again reproduce the first byte string, and the decoded fields equal the
\* original ones (compared where the payload is on the wire: commands and
\* status-0 responses).
C7_RoundTripEveryVariant ==
    cphase = "tested" =>
        /\ cres.end = "Success"
        /\ (cklass \in CommandKlasses \/ cobj.reply = 0) => cres.m = cobj

\* C8: for the variants RunTests exercises, for every session id, every field
\* value of legal width and both status 0 and a non-zero status, encoding,
\* decoding into a fresh object and re-encoding yields the first encoding.
C8_RunTestsRoundTrip ==
    cphase = "tested" /\ cklass \in RunTestsKlasses =>
        /\ cres.end = "Success"
        /\ cres.w = toWire(cobj)
        /\ cres.w2 = cres.w

C8_Witness ==
    /\ cphase = "tested" /\ cklass = "ReadDirResponse"
    /\ cobj.reply = 0 /\ cobj.conn_id = 48879 /\ Len(cobj.path) = MaxStrLen
    /\ cres.end = "Success" /\ cres.m.path = cobj.path

\* the buffer is a header followed by a non-zero status byte and nothing else
HeaderAndErrorStatus == cphase = "decoded" /\ Len(cbuf) = 5 /\ cbuf[5] # 0

\* C9 (as claimed): for every response variant, decoding a reply that is only
\* the 4-byte header and a non-zero status byte succeeds, and the decoded
\* object carries that status with its payload attributes absent.
C9_StatusGatingEveryResponse ==
    HeaderAndErrorStatus =>
        /\ ~IsExc(cres.m)
        /\ cres.m.reply = cbuf[5]
        /\ PayloadAbsent(cres.m)

\* C9 (amended): the same for every response variant except MountResponse,
\* which reads the two version bytes that follow the status whatever the
\* status: it fails on the header and status alone and succeeds, with no
\* retry delay, once the two version bytes are there.
C9_StatusGating ==
    /\ HeaderAndErrorStatus /\ cklass # "MountResponse" =>
          /\ ~IsExc(cres.m)
          /\ cres.m.reply = cbuf[5]
          /\ PayloadAbsent(cres.m)
    /\ HeaderAndErrorStatus /\ cklass = "MountResponse" => IsExc(cres.m)
    /\ cphase = "decoded" /\ cklass = "MountResponse" /\ Len(cbuf) = 7 =>
          /\ ~IsExc(cres.m)
          /\ cres.m.reply = cbuf[5] /\ cres.m.retry_delay = None
          /\ cres.m.ver_min = cbuf[6] /\ cres.m.ver_maj = cbuf[7]

C9_Witness ==
    /\ HeaderAndErrorStatus /\ cklass = "OpenResponse" /\ cbuf[5] = 255
    /\ ~IsExc(cres.m) /\ cres.m.reply = 255 /\ cres.m.fd = None

(***************************************************************************)
(* Properties of the Session.                                              *)
(***************************************************************************)
\* the session id and the sequence number a datagram carries
ConnOf(w) == UnLE(Slice(w, 0, 2))
SeqOf(w) == w[3]

\* the replies that arrived before the call sent its i-th datagram
RepliesBefore(i) == Cardinality({j \in 1..(i - 1) : net[j].kind # "timeout"})

\* C1: the sequence counter advances by one modulo 256 for every exchange
\* that receives a reply, whatever its status and whether or not it decodes,
\* and is unchanged by a timeout: after N replies the counter is N mod 256
\* (it starts at 0), it lies in 0..255, and every request carries the counter
\* as the replies before it left it.
C1_SequencePerReply ==
    /\ sequence \in 0..255
    /\ sequence = nReplied % 256
    /\ sequence = (prev.sequence + Cardinality(Replies(net))) % 256
    /\ \A i \in 1..Len(sent) : SeqOf(sent[i]) = (prev.sequence + RepliesBefore(i)) % 256

C1_Witness ==
    /\ call.op = "Stat" /\ nReplied = 257 /\ prev.sequence = 0
    /\ Len(sent) = 1 /\ SeqOf(sent[1]) = 0
    /\ net[1].kind = "badop" /\ ret.exc = "ValueError"
    /\ sequence = 1

\* C2: every Mount request on the wire carries session id 0, and every other
\* request on the wire carries the session id of the most recent Mount reply
\* with status 0.
C2_SessionIdOnTheWire ==
    \A i \in 1..Len(sent) :
        IF sent[i][4] = TnfsCmd("Mount") THEN ConnOf(sent[i]) = 0
        ELSE mounted # None /\ ConnOf(sent[i]) = mounted

C2_Witness ==
    /\ call.op = "Stat" /\ nReplied >= 3 /\ mounted = 2 /\ prev.session = 2
    /\ Len(sent) = 1 /\ sent[1][4] = TnfsCmd("Stat") /\ ConnOf(sent[1]) = 2
    /\ ret.exc = ""

\* the call was made on a Session whose conn_id was None
OnUnmounted == call.op \notin {"none", "init", "Mount"} /\ prev.session = None

\* C3: an operation other than Mount on an unmounted Session ends locally:
\* it sends no datagram and leaves the sequence counter as it was; it raises
\* from struct.pack, except OpenDirX below version 1.2, which returns None
\* values, and __exit__, which has nothing to do.
C3_UnmountedFailsLocally ==
    OnUnmounted =>
        /\ sent = <<>>
        /\ sequence = prev.sequence
        /\ session = None
        /\ \/ ret.exc = "struct.error"
           \/ call.op = "exit" /\ ret.exc = ""
           \/ call.op = "OpenDirX" /\ StrLess(prev.version, <<49, 46, 50>>)
              /\ ret.exc = "" /\ ret.val = <<None, None, None>>

C3_Witness ==
    /\ OnUnmounted /\ umounted /\ call.op = "Stat" /\ prev.sequence = 2
    /\ sent = <<>> /\ sequence = 2 /\ ret.exc = "struct.error"

\* a Mount exchange, by the constructor or by Mount, that got a reply which
\* decoded
MountReplied ==
    /\ call.op \in {"init", "Mount"} /\ ret.exc = ""
    /\ Len(net) = 1 /\ net[1].kind = "reply"

\* C4 (as claimed): a Mount exchange whose reply has status 0 sets conn_id to
\* the session id of the reply and records the version of the reply; one
\* whose reply has a non-zero status leaves conn_id unchanged.
C4_MountRecordsIdAndVersion ==
    MountReplied =>
        IF net[1].status = 0
        THEN /\ session = net[1].id
             /\ version = VersionStr(net[1].ver[1], net[1].ver[2])
        ELSE session = prev.session

\* C5: after Umount returns on a mounted Session its conn_id is None and the
\* value returned is the status byte of the Umount reply.
C5_UmountClears ==
    call.op = "Umount" /\ prev.session # None /\ ret.exc = "" =>
        /\ session = None
        /\ Len(sent) = 1 /\ Len(net) = 1
        /\ ret.val = Recv(net[1], sent[1])[5]

C5_Witness ==
    /\ call.op = "Umount" /\ prev.session = 2 /\ ret.exc = ""
    /\ net[1].kind = "bare" /\ ret.val = ErrStatus
    /\ session = None

\* C6 (as claimed): once Umount has cleared conn_id, nothing makes it non-None
\* again, a further Mount included.
C6_UmountedIsTerminal == umounted => session = None

\* C6 (amended): once Umount has cleared conn_id, it stays None through every
\* call except a Mount whose reply has status 0, which sets it to the session
\* id of that reply.
C6_UmountedUntilMount ==
    [][umounted /\ session = None /\ session' # None =>
          /\ call'.op = "Mount" /\ ret'.exc = ""
          /\ net'[1].kind = "reply" /\ net'[1].status = 0
          /\ session' = net'[1].id]_vars

C6_Witness ==
    /\ umounted /\ call.op = "Mount" /\ prev.session = None
    /\ net[1].kind = "reply" /\ net[1].status = 0 /\ session = net[1].id

\* every datagram of the call got a reply a server can send: the header, the
\* status and, after status 0 or in a Mount reply, the payload
WellFormedReplies ==
    \A i \in 1..Len(net) :
        \/ net[i].kind = "reply"
        \/ net[i].kind = "bare" /\ sent[i][4] # TnfsCmd("Mount")

\* one of the replies carried a non-zero status
SomeErrorStatus ==
    \E i \in 1..Len(net) : net[i].kind \in {"reply", "bare"} /\ net[i].status # 0

\* C10 (as claimed): no call raises because a reply carries a non-zero
\* status: a call whose replies are all well formed, one of them with a
\* non-zero status, returns normally.
C10_ErrorStatusNeverRaises ==
    call.op # "none" /\ WellFormedReplies /\ SomeErrorStatus => ret.exc = ""

(***************************************************************************)
(* Properties of the chunked transfers.                                    *)
(***************************************************************************)
\* the bytes a Write datagram carries
DataOf(w) == From(w, 7)

\* every datagram of the last call was answered with status 0, and every
\* Write among them acknowledged in full
AckedInFull ==
    /\ Len(net) = Len(sent)
    /\ \A i \in 1..Len(net) :
         /\ net[i].kind = "reply" /\ net[i].status = 0
         /\ sent[i][4] = 34 => net[i].n = Len(DataOf(sent[i]))

\* C11: a Write of N >= 1 bytes that the server acknowledges slice by slice
\* in full takes exactly ceil(N / 512) Write exchanges; exchange i carries
\* bytes 512 (i - 1) .. 512 i of the buffer, so all carry 512 bytes but the
\* last, which carries the rest; the call returns status 0 and N
C11_WriteChunks ==
    (call.op = "Write" /\ Len(call.data) >= 1 /\ AckedInFull)
    => /\ Len(sent) = (Len(call.data) + 511) \div 512
       /\ \A i \in 1..Len(sent) :
            /\ sent[i][4] = 34
            /\ DataOf(sent[i]) = Slice(call.data, 512 * (i - 1), 512 * i)
            /\ Len(DataOf(sent[i])) = IF i < Len(sent) THEN 512
                                      ELSE Len(call.data) - 512 * (Len(sent) - 1)
       /\ ret = [exc |-> "", val |-> <<0, Len(call.data)>>]

\* 1024 bytes were written in 2 exchanges of 512 bytes
C11_Witness ==
    /\ call.op = "Write" /\ Len(call.data) = 1024 /\ AckedInFull
    /\ Len(sent) = 2 /\ Len(DataOf(sent[1])) = 512 /\ Len(DataOf(sent[2])) = 512

\* the datagrams of wire with the opcode cmd
WithOpcode(wire, cmd) == {i \in 1..Len(wire) : wire[i][4] = cmd}

\* exactly one Open and one Close among the datagrams of wire
OneOpenOneClose(wire) ==
    Cardinality(WithOpcode(wire, 41)) = 1 /\ Cardinality(WithOpcode(wire, 35)) = 1

\* C12: GetFile(path) called right after PutFile(path, D), against the
\* server that stores what it acknowledges, returns exactly D, and each of
\* the two calls sends exactly one Open and one Close
C12_PutThenGet ==
    [][(call.op = "PutFile" /\ call'.op = "GetFile")
       => /\ ret.exc = "" /\ disk.file = call.data /\ OneOpenOneClose(sent)
          /\ ret' = [exc |-> "", val |-> call.data] /\ OneOpenOneClose(sent')]_vars

\* GetFile has returned the 1500 bytes the file holds, read in Read
\* exchanges of at most 512 bytes
C12_Witness ==
    /\ call.op = "GetFile" /\ ret = [exc |-> "", val |-> Bytes(1500)]
    /\ disk.file = Bytes(1500) /\ Cardinality(WithOpcode(sent, 33)) = 5

(***************************************************************************)
(* Properties of the composites.                                           *)
(***************************************************************************)
\* the first exchange of the last call was answered with a non-zero status
FirstRefused ==
    /\ net # <<>> /\ net[1].kind \in {"bare", "reply"} /\ net[1].status # 0

\* the first exchange of the last call was answered with status 0 and a
\* handle or descriptor
FirstGranted ==
    /\ net # <<>> /\ net[1].kind = "reply" /\ net[1].status = 0

IsBytes(v) == \A i \in 1..Len(v) : v[i] \in 0..255

\* C13: when the Open of GetFile or PutFile is answered with a non-zero
\* status, the call ends there: it has sent the Open and nothing else, and
\* it returns None; GetFile returns None only then, and a byte string
\* whenever it returns after an Open that yielded a descriptor
C13_NoDescriptorNoExchange ==
    call.op \in {"GetFile", "PutFile"}
    => /\ FirstRefused => /\ Len(sent) = 1 /\ sent[1][4] = 41
                          /\ ret = [exc |-> "",
                                    val |-> IF call.op = "GetFile" THEN NoneStr ELSE None]
       /\ (call.op = "GetFile" /\ ret.exc = "")
          => /\ ret.val = NoneStr <=> FirstRefused
             /\ FirstGranted => IsBytes(ret.val)

\* GetFile on a path the server refuses to open
C13_Witness ==
    /\ call.op = "GetFile" /\ FirstRefused /\ Len(sent) = 1 /\ ret.val = NoneStr

\* the exchanges of the last call with the opcode cmd that were answered
\* with status 0
Granting(cmd) ==
    {i \in WithOpcode(sent, cmd) :
       i <= Len(net) /\ net[i].kind = "reply" /\ net[i].status = 0}

\* exactly one datagram of the last call has the opcode cmd, it is the last
\* one sent, and it names the handle
ClosedOnceAtEnd(cmd) ==
    /\ WithOpcode(sent, cmd) = {Len(sent)}
    /\ sent[Len(sent)][5] = Handle

\* C14: ListDir repeats ReadDir until the first reply with a non-zero
\* status and collects the names of the status-0 replies; when OpenDir
\* returned a handle, exactly one CloseDir for it is sent after the last
\* ReadDir, however the loop ended; without a handle no CloseDir is sent
C14_ListDirAlwaysCloses ==
    (call.op = "ListDir" /\ net # <<>>)
    => /\ FirstGranted => ClosedOnceAtEnd(18)
       /\ ~FirstGranted => WithOpcode(sent, 18) = {}
       /\ ret.exc = ""
          => /\ ret.val = [i \in 1..Cardinality(Granting(17)) |-> <<97>>]
             /\ FirstGranted
                => Cardinality(WithOpcode(sent, 17)) = Cardinality(Granting(17)) + 1

\* every exchange of the last call with the opcode cmd was answered with a
\* whole reply, of status 0 or not
AllAnswered(cmd) ==
    \A i \in WithOpcode(sent, cmd) :
        i <= Len(net) /\ net[i].kind \in {"reply", "bare"}

\* C15: when OpenDirX returned a handle and the ReadDirX loop ended because
\* the remaining count reached zero or because a ReadDirX reply had a
\* non-zero status, ListDirX sends exactly one CloseDir for the handle, as
\* its last datagram
C15_ListDirXAlwaysCloses ==
    (call.op = "ListDirX" /\ FirstGranted /\ AllAnswered(24))
    => ClosedOnceAtEnd(18)

\* C16: when OpenDirX reports T entries and every ReadDirX is answered with
\* status 0 and a batch of at most b entries, ListDirX makes at most
\* ceil(T / b) ReadDirX exchanges and returns a list of at most T entries
C16_ListDirXBounded ==
    (/\ call.op = "ListDirX" /\ FirstGranted /\ ret.exc = ""
     /\ \A i \in WithOpcode(sent, 24) : net[i].kind = "reply" /\ net[i].status = 0)
    => /\ Len(ret.val.list) <= net[1].n
       /\ \A b \in 1..MaxPayload :
            (\A i \in WithOpcode(sent, 24) : net[i].n <= b)
            => Cardinality(WithOpcode(sent, 24)) <= (net[1].n + b - 1) \div b

(***************************************************************************)
(* Properties of the failure paths.                                        *)
(***************************************************************************)
\* the version (major, minor) is numerically below 1.2
Below12(v) == v[1] < 1 \/ (v[1] = 1 /\ v[2] < 2)

\* C17: on a Session whose negotiated version is below 1.2, OpenDirX
\* returns (None, None, None) and ListDirX returns None, with no datagram
\* sent and the sequence counter where it was
C17_BelowVersionNothingSent ==
    (call.op \in {"OpenDirX", "ListDirX"} /\ negotiated # NoVersion /\ Below12(negotiated))
    => /\ sent = <<>>
       /\ sequence = prev.sequence
       /\ ret = [exc |-> "",
                 val |-> IF call.op = "OpenDirX" THEN <<None, None, None>> ELSE NoneList]

\* the last exchange of the last call, one made after the Mount of the
\* constructor, got no reply within the timeout
TimedOut ==
    /\ call.op \notin {"none", "init", "Mount"}
    /\ net # <<>> /\ net[Len(net)].kind = "timeout"

\* C18: an exchange after Mount that gets no reply ends the call with
\* TimeoutError; the datagram that went unanswered is the last one the call
\* sent, one per behaviour of the network, so nothing was sent again; the
\* sequence counter still has the number stamped on it, and the same call
\* made again sends the same datagram, with that number
C18_TimeoutNoRetry ==
    /\ [](TimedOut => /\ ret.exc = "TimeoutError"
                      /\ Len(sent) = Len(net)
                      /\ sequence = SeqOf(sent[Len(sent)])
                      /\ session = prev.session)
    /\ [][(TimedOut /\ call' = call /\ Len(sent) = 1)
          => (sent' # <<>> /\ sent'[1] = sent[1])]_vars

\* a Stat that timed out on a Session that had received two replies
C18_Witness ==
    /\ call.op = "Stat" /\ TimedOut /\ Len(sent) = 1 /\ ret.exc = "TimeoutError"
    /\ prev.sequence = 2 /\ sequence = 2 /\ SeqOf(sent[1]) = 2

\* C19: no operation of the Session ends the process: a call returns or
\* raises an error its caller can handle, also when the Mount exchange
\* times out
C19_NothingExits == pc # "exited" /\ ret.exc # "SystemExit"

(***************************************************************************)
(* Properties of two Sessions side by side.                                *)
(***************************************************************************)
\* conn_id, sequence counter and version of the Session of thread t
AttrsOf(t) == <<threads[t].session, threads[t].sequence, threads[t].version>>

\* the opcodes of the datagrams the operation op sends
OpcodesOf(op) ==
    CASE op = "init" -> {0}
      [] op = "Stat" -> {36}
      [] op = "ListDir" -> {16, 17, 18}
      [] op = "Umount" -> {1}

\* the replies thread t had received when it sent its datagram number k
HeardBefore(t, k) ==
    Cardinality({j \in 1..(k - 1) : threads[t].heard[j].kind # "timeout"})

\* the socket of thread t carries the requests of t's calls, in the order
\* of the calls, each stamped with the count of the replies that arrived on
\* this socket and with the session id granted on this socket
OwnSocketInOrder(t) ==
    /\ threads[t].session \in {None, t}
    /\ threads[t].sequence = HeardBefore(t, Len(threads[t].heard) + 1) % 256
    /\ \A k \in 1..Len(threads[t].wire) :
         /\ threads[t].wire[k][4] \in OpcodesOf(threads[t].calls[threads[t].sender[k]])
         /\ k > 1 => threads[t].sender[k - 1] <= threads[t].sender[k]
         /\ SeqOf(threads[t].wire[k]) = HeardBefore(t, k) % 256
         /\ ConnOf(threads[t].wire[k]) = IF threads[t].wire[k][4] = 0 THEN 0 ELSE t

\* C20: a step of one thread leaves conn_id, sequence counter and version
\* of the other thread's Session as they were, under every interleaving,
\* and each Session's requests are on its own socket in the order of its
\* caller's calls
C20_SessionsIndependent ==
    /\ [](\A t \in Threads : OwnSocketInOrder(t))
    /\ [][\A t \in Threads :
            threads'[t] # threads[t]
            => \A u \in Threads \ {t} : AttrsOf(u)' = AttrsOf(u)]_vars

\* both threads are inside a ListDir at once, each waiting for the reply to
\* its ReadDir, with different session ids and the same sequence number
C20_Witness ==
    /\ \A t \in Threads :
         /\ threads[t].pc = "busy" /\ threads[t].call.op = "ListDir"
         /\ Len(threads[t].wire) = 3 /\ threads[t].wire[3][4] = 17
         /\ threads[t].session = t /\ threads[t].sequence = 2

(***************************************************************************)
(* Properties of the loops of Read and Write.                              *)
(***************************************************************************)
\* the bytes the reply to the Read exchange i of the last call carries
ReadBytes(i) ==
    IF net[i].kind \in {"reply", "data"} /\ net[i].status = 0
    THEN From(Recv(net[i], sent[i]), 7) ELSE <<>>

RECURSIVE Accumulated(_)
\* the bytes of the replies to the first k exchanges of the last call, in order
Accumulated(k) == IF k = 0 THEN <<>> ELSE Accumulated(k - 1) \o ReadBytes(k)

\* the last call was a Read on a Session that holds a session id, and each
\* of its exchanges was answered with a whole reply
ReadAnswered == call.op = "Read" /\ prev.session # None /\ AllAnswered(33)

\* C21: when every exchange of Read(fd, size) is answered, the loop ends at
\* the first reply with a non-zero status, at the first status-0 reply that
\* carries no bytes, or when no bytes remain to request: a further Read
\* request follows a reply exactly when the reply has status 0, carries at
\* least one byte and leaves bytes to request
C21_ReadLoopEnds ==
    ReadAnswered
    => \A i \in 1..Len(sent) :
           i < Len(sent) <=> /\ net[i].status = 0
                             /\ Len(ReadBytes(i)) >= 1
                             /\ call.size - Len(Accumulated(i)) > 0

\* C22: for every size >= 0, Read returns: status 0 with the bytes of the
\* status-0 replies in order, at least one byte, or, with no byte
\* obtained, a non-zero status and None
C22_ReadReturns ==
    ReadAnswered
    => /\ ret.exc = ""
       /\ \/ /\ Len(Accumulated(Len(net))) >= 1
             /\ ret.val = <<0, Accumulated(Len(net))>>
          \/ /\ Len(Accumulated(Len(net))) = 0
             /\ ret.val[1] # 0 /\ ret.val[2] = NoneStr

\* the count of bytes the reply to the Write exchange i of the last call
\* acknowledges
AckOf(i) ==
    IF net[i].kind = "reply" /\ net[i].status = 0
    THEN UnLE(Slice(Recv(net[i], sent[i]), 5, 7)) ELSE 0

RECURSIVE Acknowledged(_)
\* the sum of the counts acknowledged in the first k exchanges of the last call
Acknowledged(k) == IF k = 0 THEN 0 ELSE Acknowledged(k - 1) + AckOf(k)

\* C23: each Write request carries the slice that starts at the sum of the
\* counts acknowledged so far, also after a reply that acknowledged fewer
\* bytes than were sent; a request follows status-0 replies only, and the
\* count returned is the sum of the acknowledged counts
C23_WriteAdvancesByAck ==
    (call.op = "Write" /\ prev.session # None)
    => /\ \A i \in 1..Len(sent) :
            /\ sent[i][4] = 34
            /\ DataOf(sent[i]) = Slice(call.data, Acknowledged(i - 1),
                                       Acknowledged(i - 1) + 512)
            /\ i < Len(sent) => net[i].kind = "reply" /\ net[i].status = 0
       /\ (ret.exc = "" /\ net # <<>>)
          => ret.val = <<net[Len(net)].status, Acknowledged(Len(net))>>

\* of the two bytes sent the first reply acknowledged one: the second
\* request carries the second byte alone
C23_Witness ==
    /\ call.op = "Write" /\ call.data = <<65, 66>> /\ Len(sent) >= 2
    /\ DataOf(sent[1]) = <<65, 66>> /\ AckOf(1) = 1 /\ DataOf(sent[2]) = <<66>>
    /\ ret.exc = "" /\ ret.val[2] = Acknowledged(Len(net))

\* the count of bytes the Read datagram w asks for
AskedBy(w) == UnLE(Slice(w, 5, 7))

\* C24: each request of Read(fd, size) asks for min(remaining, 512) bytes,
\* remaining being size less the bytes received so far; each request of
\* Write carries 1 to 512 bytes; no exchange of Read, Write, GetFile or
\* PutFile asks for or carries more than 512 bytes
C24_ChunksWithin512 ==
    (call.op \in {"Read", "Write", "GetFile", "PutFile"} /\ prev.session # None)
    => \A i \in 1..Len(sent) :
           /\ (call.op = "Read")
              => /\ sent[i][4] = 33
                 /\ AskedBy(sent[i]) = Min(call.size - Len(Accumulated(i - 1)), 512)
           /\ sent[i][4] = 33 => AskedBy(sent[i]) \in 1..512
           /\ sent[i][4] = 34 => Len(DataOf(sent[i])) \in 1..512

\* a Read of 513 bytes asked for 512, received 2 and asked for 511
C24_Witness ==
    /\ call.op = "Read" /\ call.size = 513 /\ prev.session # None /\ Len(sent) >= 2
    /\ AskedBy(sent[1]) = 512 /\ Len(ReadBytes(1)) = 2 /\ AskedBy(sent[2]) = 511

\* the exchange i of the last call was answered with a non-zero status
Refused(i) == i <= Len(net) /\ net[i].kind \in {"bare", "reply"} /\ net[i].status # 0

\* C25: in PutFile, once a Write exchange was answered with a non-zero
\* status no further Write is sent: the next datagram is the Close, the
\* last of the call
C25_PutFileStopsAtFailure ==
    (call.op = "PutFile" /\ prev.session # None)
    => \A i \in WithOpcode(sent, 34) :
           Refused(i) => /\ \A j \in WithOpcode(sent, 34) : j <= i
                         /\ WithOpcode(sent, 35) = {i + 1}

(***************************************************************************)
(* Properties of the ends of loops: end of listing, timeout.               *)
(***************************************************************************)
\* the reply to the ReadDirX exchange i of the last call has status 0 and
\* bit 0 of its directory status byte set
EndOfListing(i) ==
    /\ i <= Len(net) /\ net[i].kind = "reply" /\ net[i].status = 0
    /\ Recv(net[i], sent[i])[7] % 2 = 1

\* C26: once a ReadDirX reply with status 0 has the end-of-listing bit set,
\* ListDirX sends no further ReadDirX, also when the count that remains of
\* the total of OpenDirX is above zero
C26_EndOfListingStops ==
    (call.op = "ListDirX" /\ prev.session # None)
    => \A i \in WithOpcode(sent, 24) :
           EndOfListing(i) => \A j \in WithOpcode(sent, 24) : j <= i

\* C27: when an exchange of Read gets no reply after at least one byte has
\* been accumulated, Read sends nothing more and hands its caller the
\* accumulated bytes together with the error
C27_TimeoutKeepsBytes ==
    (/\ call.op = "Read" /\ prev.session # None
     /\ net # <<>> /\ net[Len(net)].kind = "timeout"
     /\ Len(Accumulated(Len(net) - 1)) >= 1)
    => /\ Len(sent) = Len(net)
       /\ ret.exc = "TimeoutError"
       /\ Len(ret.val) = 2 /\ ret.val[2] = Accumulated(Len(net) - 1)

(***************************************************************************)
(* Properties of decoding damaged replies.                                 *)
(***************************************************************************)
\* fromWire was called on a ReadDirResponse buffer of status 0 that has no
\* zero byte from the start of the name to its end
NameUnterminated ==
    /\ cphase = "decoded" /\ cklass = "ReadDirResponse"
    /\ Len(cbuf) >= 5 /\ cbuf[5] = 0 /\ FindZero(cbuf, 5) = -1

\* C28: decoding a string field that has no zero terminator before the end
\* of the buffer fails with an error; fromWire yields no decoded message
C28_NoTerminatorFails == NameUnterminated => IsExc(cres.m)

\* the variant puts a payload after the status byte of a status-0 reply
NeedsPayload(klass) == \E o \in Objects(klass) : o.reply = 0 /\ Len(toWire(o)) > 5

\* fromWire was called on a reply of status 0 cut after its status byte,
\* for a variant that has a payload
Truncated ==
    /\ cphase = "decoded" /\ Len(cbuf) = 5 /\ cbuf[5] = 0 /\ NeedsPayload(cklass)

\* C29: decoding a status-0 reply that is shorter than the payload of its
\* variant fails with an error; no response object of status 0 comes out
\* of it
C29_TruncatedFails == Truncated => IsExc(cres.m)

\* the last exchange of the last call was answered with a reply that has
\* the opcode of another command
WrongOpcode ==
    /\ call.op # "none" /\ net # <<>> /\ Len(sent) = Len(net)
    /\ net[Len(net)].kind = "badop"
    /\ Recv(net[Len(net)], sent[Len(sent)])[4] # sent[Len(sent)][4]

\* C30: a reply whose opcode is not that of the response expected is
\* rejected by fromWire with ValueError; the operation raises it, returns
\* nothing and makes no further exchange, and the Session keeps its session
\* id and version
C30_WrongOpcodeRejected ==
    WrongOpcode => /\ ret = [exc |-> "ValueError", val |-> <<>>]
                   /\ session = prev.session /\ version = prev.version

\* a Stat answered with the reply to another command
C30_Witness ==
    /\ call.op = "Stat" /\ WrongOpcode /\ Len(sent) = 1
    /\ sent[1][4] = 36 /\ Recv(net[1], sent[1])[4] = 37
    /\ ret.exc = "ValueError"

\* the datagram recvfrom returned in exchange i of the call last made
Received(i) == Recv(net[i], sent[i])

\* exchange i of the call last made handed its reply to the caller: it was
\* decoded and the call went on, or returned
Accepted(i) == net[i].kind # "timeout" /\ (i < Len(net) \/ ret.exc = "")

\* C31 (as claimed): on a transport that delays or duplicates datagrams,
\* every reply an exchange hands to its caller echoes the sequence number of
\* the request sent in that exchange, so that a chunked Read takes no chunk
\* twice.
C31_ReplyMatchesRequest ==
    \A i \in 1..Len(net) : Accepted(i) => Received(i)[3] = sent[i][3]

\* C32 (as claimed): on a Session whose negotiated version is numerically at
\* least 1.2 (major above 1, or major 1 and minor at least 2), OpenDirX
\* sends the OpenDirX request instead of reporting unsupported.
C32_OpenDirXFromVersion12 ==
    (call.op = "OpenDirX" /\ negotiated # NoVersion /\ ~Below12(negotiated))
    => /\ sent # <<>>
       /\ sent[1][4] = 23

\* C33 (as claimed): leaving the context of a Session sends exactly one
\* Umount request when the Session is mounted and no datagram when it is
\* not, and the Session's conn_id is None afterwards in every case, also
\* when the Umount request gets no reply.
C33_ExitUmountsOnce ==
    call.op = "exit" =>
        /\ IF prev.session # None
           THEN Len(sent) = 1 /\ sent[1][4] = 1
           ELSE sent = <<>>
        /\ session = None

\* the flags field of the Open request w
FlagsOf(w) == UnLE(Slice(w, 4, 6))

\* C34 (as claimed): every Open request a composite sends has a valid access
\* mode in the low two bits of its flags: GetFile opens with O_RDONLY
\* (0x0001) and PutFile with O_WRONLY | O_CREAT | O_TRUNC (0x0302).
C34_OpenAccessMode ==
    call.op \in {"GetFile", "PutFile"} =>
        \A i \in WithOpcode(sent, 41) :
            /\ FlagsOf(sent[i]) % 4 # 0
            /\ FlagsOf(sent[i]) = IF call.op = "GetFile" THEN 1 ELSE 770

====
